---------------------------- MODULE Spec2Model ----------------------------
(***************************************************************************)
(* A model of the Army Markdown transpiler core of jschless/armymarkdown:  *)
(* the inline escaper, the body parser and the document parser of          *)
(* src/armymarkdown/memo_model.py with the key tables of                   *)
(* src/armymarkdown/utils.py.                                              *)
(*                                                                         *)
(* Strings.  A Python str is modelled as a sequence of atoms.  An atom is  *)
(* either one character ("a", "~", "\\", " ", "\n", ...) or a word: a run  *)
(* of letters that the code only ever treats as a unit (a header key such  *)
(* as "SUBJECT", a LaTeX command name such as "textbackslash", a plain     *)
(* header value such as "Unit").  No input of the model spells a word out  *)
(* of single characters, so substring tests on words are membership tests  *)
(* on atoms.  AtomLen gives the number of characters an atom stands for    *)
(* wherever the code measures len().                                       *)
(***************************************************************************)
EXTENDS Integers, Sequences, FiniteSets, TLC

VARIABLES
    e_in,           \* escaper run: the raw string s
    e_esc,          \* escaper run: add_latex_escape_chars(s)
    e_unesc,        \* escaper run: remove_latex_escape_chars of the former
    e_pc,           \* escaper run: "raw", "escaped", "unescaped" ("off": not run)
    lines,          \* parse_memo_body: its argument
    pos,            \* parse_memo_body: index of the line the loop is at
    master_list,    \* parse_memo_body: the body tree built so far
    cur_indent,     \* parse_memo_body: dash column of the last dash line
    indent_levels,  \* parse_memo_body: the dash columns seen so far
    table,          \* parse_memo_body: buffered table rows
    b_pc,           \* parse_memo_body: "loop", "returned", "raised" ("off")
    default_date,   \* MemoModel.todays_date: the class default, computed at import
    file_lines,     \* parse_lines: its argument
    result,         \* parse_lines: what it returned
    amd,            \* result.to_amd(), when result is a MemoModel
    result2,        \* MemoModel.from_text(amd)
    p_pc,           \* document run: "input", "parsed", "written", "reparsed" ("off")
    today,          \* the process: the day date.today() returns now (days since import)
    w_data,         \* MemoWriter: self.data
    w_lines,        \* MemoWriter: self.lines
    w_out,          \* MemoWriter: the lines of the file the last write() wrote
    w_exc,          \* MemoWriter: the exception the last write() raised ("none")
    w_pc,           \* writer run: number of write() calls on this object (-1: off)
    d_in,           \* dict run: the argument (a dict, a MemoModel or a form)
    d_out,          \* dict run: what the call returned
    d_pc            \* dict run: "input", "returned", "raised" ("off")

esc_vars == <<e_in, e_esc, e_unesc, e_pc>>
body_vars == <<lines, pos, master_list, cur_indent, indent_levels, table, b_pc>>
doc_vars == <<default_date, file_lines, result, amd, result2, p_pc>>
clock_vars == <<today>>
wr_vars == <<w_data, w_lines, w_out, w_exc, w_pc>>
dict_vars == <<d_in, d_out, d_pc>>
vars == <<esc_vars, body_vars, doc_vars, clock_vars, wr_vars, dict_vars>>

\* what the actions of one run leave alone
not_esc == <<body_vars, doc_vars, clock_vars, wr_vars, dict_vars>>
not_body == <<esc_vars, doc_vars, clock_vars, wr_vars, dict_vars>>
not_doc == <<esc_vars, body_vars, wr_vars, dict_vars>>
not_wr == <<esc_vars, body_vars, doc_vars, clock_vars, dict_vars>>
not_dict == <<esc_vars, body_vars, doc_vars, clock_vars, wr_vars>>

\* the values of the variables of a run that a specification does not make
Unset == [kind |-> "unset", s |-> <<>>]

\* date.today().strftime("%d %B %Y") on the day-th day after the module was
\* imported
DateOf(day) ==
    << <<"03", "04", "05", "06", "07">>[day + 1], " ", "November", " ", "2026">>

\* the value at import
ImportDate == DateOf(0)

EscOff == e_in = <<>> /\ e_esc = <<>> /\ e_unesc = <<>> /\ e_pc = "off"

BodyOff ==
    /\ lines = <<>> /\ pos = 0 /\ master_list = <<>> /\ cur_indent = 0
    /\ indent_levels = {} /\ table = <<>> /\ b_pc = "off"

DocOff ==
    /\ default_date = ImportDate /\ file_lines = <<>> /\ result = Unset
    /\ amd = [exc |-> "none", text |-> <<>>] /\ result2 = Unset /\ p_pc = "off"
    /\ today = 0

WrOff ==
    /\ w_data = Unset /\ w_lines = <<>> /\ w_out = <<>> /\ w_exc = "none" /\ w_pc = -1

DictOff == d_in = Unset /\ d_out = Unset /\ d_pc = "off"

----------------------------------------------------------------------------
(* str primitives                                                          *)

BS == "\\"
NL == "\n"

\* s[i:i+len(pat)] == pat
MatchAt(s, i, pat) ==
    /\ i + Len(pat) - 1 <= Len(s)
    /\ \A k \in 1..Len(pat) : s[i + k - 1] = pat[k]

\* pat in s
Contains(s, pat) == \E i \in 1..Len(s) : MatchAt(s, i, pat)

\* s.count(c) for a one-character c
Count(s, c) == Cardinality({i \in 1..Len(s) : s[i] = c})

\* s.find(c) for a one-character c, 0-based, -1 when absent
Find(s, c) ==
    IF \E i \in 1..Len(s) : s[i] = c
    THEN (CHOOSE i \in 1..Len(s) : s[i] = c /\ \A j \in 1..(i - 1) : s[j] # c) - 1
    ELSE -1

RECURSIVE ReplaceFrom(_, _, _, _)
ReplaceFrom(s, i, old, new) ==
    IF i > Len(s) THEN <<>>
    ELSE IF MatchAt(s, i, old) THEN new \o ReplaceFrom(s, i + Len(old), old, new)
    ELSE <<s[i]>> \o ReplaceFrom(s, i + 1, old, new)

\* s.replace(old, new): every non-overlapping occurrence, left to right
Replace(s, old, new) == ReplaceFrom(s, 1, old, new)

Whitespace == {" ", NL}

RECURSIVE LStrip(_)
LStrip(s) == IF s # <<>> /\ Head(s) \in Whitespace THEN LStrip(Tail(s)) ELSE s

RECURSIVE RStrip(_)
RStrip(s) ==
    IF s # <<>> /\ s[Len(s)] \in Whitespace THEN RStrip(SubSeq(s, 1, Len(s) - 1)) ELSE s

\* s.strip()
Strip(s) == RStrip(LStrip(s))

\* The end of the shortest match of open(.*?)close that starts at i: the first
\* j past the opener where close matches and no newline lies in between
\* ('.' does not match a newline); 0 when there is none.
CloseAt(s, i, open, close) ==
    LET from == i + Len(open)
        ok(j) == /\ MatchAt(s, j, close)
                 /\ \A k \in from..(j - 1) : s[k] # NL
    IN  IF \E j \in from..Len(s) : ok(j)
        THEN CHOOSE j \in from..Len(s) : ok(j) /\ \A k \in from..(j - 1) : ~ok(k)
        ELSE 0

RECURSIVE SubFrom(_, _, _, _, _, _)
SubFrom(s, i, open, close, ropen, rclose) ==
    IF i > Len(s) THEN <<>>
    ELSE IF MatchAt(s, i, open) /\ CloseAt(s, i, open, close) # 0
         THEN LET j == CloseAt(s, i, open, close)
              IN  ropen \o SubSeq(s, i + Len(open), j - 1) \o rclose
                    \o SubFrom(s, j + Len(close), open, close, ropen, rclose)
         ELSE <<s[i]>> \o SubFrom(s, i + 1, open, close, ropen, rclose)

RECURSIVE Concat(_)
Concat(ss) == IF ss = <<>> THEN <<>> ELSE Head(ss) \o Concat(Tail(ss))

\* re.sub(r"open(.*?)close", r"ropen\1rclose", s)
RegexSub(s, open, close, ropen, rclose) == SubFrom(s, 1, open, close, ropen, rclose)

----------------------------------------------------------------------------
(* The inline escaper                                                      *)

\* special_chars of add_latex_escape_chars, in dict order
special_chars ==
    << <<"~",  <<BS, "textasciitilde", " ">> >>,
       <<"^",  <<BS, "textasciicircum">> >>,
       <<BS,   <<BS, "textbackslash">> >> >>

normal_chars == <<"&", "%", "$", "#", "_", "{", "}">>

Stars(n) == [i \in 1..n |-> "*"]

\* " " * n
Spaces(n) == [i \in 1..n |-> " "]

RECURSIVE EscapeSpecial(_, _)
EscapeSpecial(s, k) ==
    IF k > Len(special_chars) THEN s
    ELSE EscapeSpecial(Replace(s, <<special_chars[k][1]>>, special_chars[k][2]), k + 1)

RECURSIVE EscapeNormal(_, _)
EscapeNormal(s, k) ==
    IF k > Len(normal_chars) THEN s
    ELSE EscapeNormal(Replace(s, <<normal_chars[k]>>, <<BS, normal_chars[k]>>), k + 1)

EscapeEmphasis(s) ==
    LET u == RegexSub(s, Stars(3), Stars(3), <<BS, "underline", "{">>, <<"}">>)
        b == RegexSub(u, Stars(2), Stars(2), <<BS, "textbf", "{">>, <<"}">>)
    IN  RegexSub(b, Stars(1), Stars(1), <<BS, "textit", "{">>, <<"}">>)

add_latex_escape_chars(s) == EscapeEmphasis(EscapeNormal(EscapeSpecial(s, 1), 1))

RECURSIVE UnescapeSpecial(_, _)
UnescapeSpecial(s, k) ==
    IF k > Len(special_chars) THEN s
    ELSE UnescapeSpecial(Replace(s, special_chars[k][2], <<special_chars[k][1]>>), k + 1)

RECURSIVE UnescapeNormal(_, _)
UnescapeNormal(s, k) ==
    IF k > Len(normal_chars) THEN s
    ELSE UnescapeNormal(Replace(s, <<BS, normal_chars[k]>>, <<normal_chars[k]>>), k + 1)

UnescapeEmphasis(s) ==
    LET u == RegexSub(s, <<BS, "underline", "{">>, <<"}">>, Stars(3), Stars(3))
        b == RegexSub(u, <<BS, "textbf", "{">>, <<"}">>, Stars(2), Stars(2))
    IN  RegexSub(b, <<BS, "textit", "{">>, <<"}">>, Stars(1), Stars(1))

remove_latex_escape_chars(s) == UnescapeEmphasis(UnescapeNormal(UnescapeSpecial(s, 1), 1))

----------------------------------------------------------------------------
(* The body tree: a Python list whose elements are str or list             *)

Str(t) == [kind |-> "str", s |-> t, kids |-> <<>>]
List(k) == [kind |-> "list", s |-> <<>>, kids |-> k]

RECURSIVE flatten(_)
flatten(lst) ==
    IF lst = <<>> THEN <<>>
    ELSE (IF Head(lst).kind = "list" THEN flatten(Head(lst).kids) ELSE <<Head(lst).s>>)
           \o flatten(Tail(lst))

\* "\n".join(line_list)
RECURSIVE JoinLines(_)
JoinLines(ls) ==
    IF ls = <<>> THEN <<>>
    ELSE IF Len(ls) = 1 THEN ls[1]
    ELSE ls[1] \o <<NL>> \o JoinLines(Tail(ls))

\* process_table hands the rows to pandas.read_table(sep="|", header=0) and
\* the frame to tabulate(..., tablefmt="latex"); any exception gives "".  The
\* libraries are modelled by their contract: the reader raises when a row has
\* more fields than the header row, the separator row (.iloc[1:]) is dropped,
\* and the markup is a tabular environment around the remaining rows.
TableParses(line_list) ==
    \A r \in 1..Len(line_list) : Count(line_list[r], "|") <= Count(line_list[1], "|")

TabularBegin == <<BS, "begin", "{", "tabular", "}">>
TabularEnd == <<BS, "end", "{", "tabular", "}">>
HLine == <<BS, "hline">>

\* the column specification: one left-aligned column per cell of the header row
ColumnSpec(line_list) == [c \in 1..(Count(line_list[1], "|") - 1) |-> "l"]

\* the lines of the latex format: rule, header row, rule, data rows, rule
process_table(line_list) ==
    IF TableParses(line_list)
    THEN JoinLines(<< TabularBegin \o <<"{">> \o ColumnSpec(line_list) \o <<"}">>,
                      HLine, line_list[1] \o <<BS, BS>>, HLine >>
                     \o [r \in 1..(Len(line_list) - 2) |-> line_list[r + 2] \o <<BS, BS>>]
                     \o <<HLine, TabularEnd>>)
    ELSE <<>>

\* (mutant) the paragraph becomes a node of its own
AppendParagraph_AsNewNode(cur_list, more) == Append(cur_list, Str(more))

\* lines 262-265: descend through the last elements while they are lists and
\* extend the str found there
RECURSIVE AppendParagraph(_, _)
AppendParagraph(cur_list, more) ==
    LET last == cur_list[Len(cur_list)]
    IN  IF last.kind = "list"
        THEN [cur_list EXCEPT ![Len(cur_list)] = List(AppendParagraph(last.kids, more))]
        ELSE [cur_list EXCEPT ![Len(cur_list)] = Str(last.s \o more)]

\* (mutant) every item is appended at the root, whatever its column
AppendAtLevel_Flat(proper_indent_level, n, node) == Append(proper_indent_level, node)

\* lines 275-284: one step down per previously seen smaller column, as long as
\* the last element is a list; then append there
RECURSIVE AppendAtLevel(_, _, _)
AppendAtLevel(proper_indent_level, n, node) ==
    IF n > 0 /\ proper_indent_level[Len(proper_indent_level)].kind = "list"
    THEN [proper_indent_level EXCEPT ![Len(proper_indent_level)] =
            List(AppendAtLevel(@.kids, n - 1, node))]
    ELSE Append(proper_indent_level, node)

IsTableRow(line) ==
    (Find(line, "-") = -1 \/ Count(line, "-") > 1) /\ Count(line, "|") > 1

IsParagraph(line) == ~IsTableRow(line) /\ Find(line, "-") = -1

\* The loop state of parse_memo_body; exc is the exception raised, if any.
BodyState(ml, ci, il, tb, exc) ==
    [master_list |-> ml, cur_indent |-> ci, indent_levels |-> il, table |-> tb, exc |-> exc]

BodyInit == BodyState(<<>>, 0, {}, <<>>, "none")

\* lines 267-269
FlushTable(st, line) ==
    IF st.table # <<>> /\ Count(line, "|") < 2
    THEN [st EXCEPT !.master_list = Append(@, Str(process_table(st.table))),
                    !.table = <<>>]
    ELSE st

\* (mutant) nesting by absolute column multiples instead of first-seen columns
DashLine_ColumnMultiples(st0, line) ==
    LET st == FlushTable(st0, line)
        dash_loc == Find(line, "-")
        levels == st.indent_levels \cup {dash_loc}
        line_text == add_latex_escape_chars(Strip(SubSeq(line, dash_loc + 2, Len(line))))
        n == dash_loc \div 4
        node == IF dash_loc > st.cur_indent THEN List(<<Str(line_text)>>) ELSE Str(line_text)
    IN  IF n > 0 /\ st.master_list = <<>>
        THEN [st EXCEPT !.indent_levels = levels, !.exc = "IndexError"]
        ELSE [st EXCEPT !.master_list = AppendAtLevel(@, n, node),
                        !.indent_levels = levels,
                        !.cur_indent = dash_loc]

\* lines 271-285
DashLine(st0, line) ==
    LET st == FlushTable(st0, line)
        dash_loc == Find(line, "-")
        levels == st.indent_levels \cup {dash_loc}
        line_text == add_latex_escape_chars(Strip(SubSeq(line, dash_loc + 2, Len(line))))
        n == Cardinality({x \in levels : x < dash_loc})
        node == IF dash_loc > st.cur_indent THEN List(<<Str(line_text)>>) ELSE Str(line_text)
    IN  IF n > 0 /\ st.master_list = <<>>
        THEN [st EXCEPT !.indent_levels = levels, !.exc = "IndexError"]
        ELSE [st EXCEPT !.master_list = AppendAtLevel(@, n, node),
                        !.indent_levels = levels,
                        !.cur_indent = dash_loc]

\* lines 255-285: one iteration of the for loop
BodyStep(st, line) ==
    IF IsTableRow(line) THEN [st EXCEPT !.table = Append(@, line)]
    ELSE IF Find(line, "-") = -1
    THEN IF st.master_list = <<>>
         THEN [st EXCEPT !.exc = "IndexError"]
         ELSE [st EXCEPT !.master_list =
                 AppendParagraph(@, <<NL, NL>> \o add_latex_escape_chars(Strip(line)))]
    ELSE DashLine(st, line)

RECURSIVE BodyFold(_, _, _)
BodyFold(st, ls, i) ==
    IF i > Len(ls) \/ st.exc # "none" THEN st
    ELSE BodyFold(BodyStep(st, ls[i]), ls, i + 1)

\* parse_memo_body(lines): [exc |-> "none", value |-> master_list] or the exception
parse_memo_body(ls) ==
    LET st == BodyFold(BodyInit, ls, 1)
    IN  [exc |-> st.exc, value |-> IF st.exc = "none" THEN st.master_list ELSE <<>>]

----------------------------------------------------------------------------
(* Key tables (utils.py) and the MemoModel dataclass                       *)

\* key_converter, in dict order: <<external key, field>>
key_converter ==
    << <<"ORGANIZATION_NAME", "unit_name">>,
       <<"ORGANIZATION_STREET_ADDRESS", "unit_street_address">>,
       <<"ORGANIZATION_CITY_STATE_ZIP", "unit_city_state_zip">>,
       <<"OFFICE_SYMBOL", "office_symbol">>,
       <<"DATE", "todays_date">>,
       <<"AUTHOR", "author_name">>,
       <<"RANK", "author_rank">>,
       <<"BRANCH", "author_branch">>,
       <<"TITLE", "author_title">>,
       <<"MEMO_TYPE", "memo_type">>,
       <<"SUBJECT", "subject">>,
       <<"FOR_ORGANIZATION_NAME", "for_unit_name">>,
       <<"FOR_ORGANIZATION_STREET_ADDRESS", "for_unit_street_address">>,
       <<"FOR_ORGANIZATION_CITY_STATE_ZIP", "for_unit_city_state_zip">>,
       <<"THRU_ORGANIZATION_NAME", "thru_unit_name">>,
       <<"THRU_ORGANIZATION_STREET_ADDRESS", "thru_unit_street_address">>,
       <<"THRU_ORGANIZATION_CITY_STATE_ZIP", "thru_unit_city_state_zip">> >>

\* k in key_converter
KnownKeys == { key_converter[i][1] : i \in 1..Len(key_converter) }

\* key_converter[k]
FieldOfKey(k) ==
    key_converter[CHOOSE i \in 1..Len(key_converter) : key_converter[i][1] = k][2]

\* inv_key_converter[f]
inv_key_converter(f) ==
    key_converter[CHOOSE i \in 1..Len(key_converter) : key_converter[i][2] = f][1]

optional_keys ==
    { "for_unit_name", "for_unit_street_address", "for_unit_city_state_zip",
      "thru_unit_name", "thru_unit_street_address", "thru_unit_city_state_zip",
      "suspense_date", "document_mark", "enclosures", "distros", "cfs", "todays_date" }

list_keys ==
    { "for_unit_name", "for_unit_street_address", "for_unit_city_state_zip",
      "thru_unit_name", "thru_unit_street_address", "thru_unit_city_state_zip",
      "enclosures", "distros", "cfs" }

\* the dataclass fields without a default: cls(**memo_dict) raises TypeError
\* when one of them is not given
RequiredInit ==
    { "unit_name", "unit_street_address", "unit_city_state_zip", "office_symbol",
      "subject", "text", "author_name", "author_rank", "author_branch" }

\* the dataclass fields whose default is None
NoneDefault ==
    { "author_title",
      "for_unit_name", "for_unit_street_address", "for_unit_city_state_zip",
      "thru_unit_name", "thru_unit_street_address", "thru_unit_city_state_zip",
      "suspense_date", "document_mark", "enclosures", "distros", "cfs", "authority" }

Fields == RequiredInit \cup NoneDefault \cup {"memo_type", "todays_date"}

\* A dict is a function on its keys.  d[k] = v on a copy of d
DictSet(d, k, v) == [x \in DOMAIN d \cup {k} |-> IF x = k THEN v ELSE d[x]]

EmptyDict == [x \in {} |-> <<>>]

\* A MemoModel is a record of its fields plus "none": the fields that are None
\* (such a field holds <<>>).
MemoModel(d) ==
    [kind |-> "MemoModel",
     none |-> NoneDefault \ DOMAIN d,
     unit_name |-> d["unit_name"],
     unit_street_address |-> d["unit_street_address"],
     unit_city_state_zip |-> d["unit_city_state_zip"],
     office_symbol |-> d["office_symbol"],
     subject |-> d["subject"],
     text |-> d["text"],
     author_name |-> d["author_name"],
     author_rank |-> d["author_rank"],
     author_branch |-> d["author_branch"],
     author_title |-> IF "author_title" \in DOMAIN d THEN d["author_title"] ELSE <<>>,
     memo_type |-> d["memo_type"],
     todays_date |-> IF "todays_date" \in DOMAIN d THEN d["todays_date"] ELSE default_date,
     for_unit_name |-> IF "for_unit_name" \in DOMAIN d THEN d["for_unit_name"] ELSE <<>>,
     for_unit_street_address |->
        IF "for_unit_street_address" \in DOMAIN d THEN d["for_unit_street_address"] ELSE <<>>,
     for_unit_city_state_zip |->
        IF "for_unit_city_state_zip" \in DOMAIN d THEN d["for_unit_city_state_zip"] ELSE <<>>,
     thru_unit_name |-> IF "thru_unit_name" \in DOMAIN d THEN d["thru_unit_name"] ELSE <<>>,
     thru_unit_street_address |->
        IF "thru_unit_street_address" \in DOMAIN d THEN d["thru_unit_street_address"] ELSE <<>>,
     thru_unit_city_state_zip |->
        IF "thru_unit_city_state_zip" \in DOMAIN d THEN d["thru_unit_city_state_zip"] ELSE <<>>,
     suspense_date |-> IF "suspense_date" \in DOMAIN d THEN d["suspense_date"] ELSE <<>>,
     document_mark |-> IF "document_mark" \in DOMAIN d THEN d["document_mark"] ELSE <<>>,
     enclosures |-> IF "enclosures" \in DOMAIN d THEN d["enclosures"] ELSE <<>>,
     distros |-> IF "distros" \in DOMAIN d THEN d["distros"] ELSE <<>>,
     cfs |-> IF "cfs" \in DOMAIN d THEN d["cfs"] ELSE <<>>,
     authority |-> IF "authority" \in DOMAIN d THEN d["authority"] ELSE <<>>]

\* a returned str (an error message), and an exception that escapes the call
ErrorStr(msg) == [kind |-> "str", s |-> msg]
Raised(e) == [kind |-> "exception", s |-> <<e>>]

\* ",".join(names)
RECURSIVE JoinComma(_)
JoinComma(names) ==
    IF names = <<>> THEN <<>>
    ELSE IF Len(names) = 1 THEN <<names[1]>>
    ELSE <<names[1], ",">> \o JoinComma(Tail(names))

\* the keys of inv_key_converter that memo_dict lacks, less the optional ones
\* (lines 199-202), in key_converter order (a Python set has no fixed order)
MissingKeys(d) ==
    SelectSeq([i \in 1..Len(key_converter) |-> key_converter[i][2]],
              LAMBDA f : f \notin DOMAIN d /\ f \notin optional_keys)

\* lines 188-193 without the assignment: the caller's memo_type is kept
deduce_memo_type_KeepCaller(memo_dict) ==
    IF "memo_type" \in DOMAIN memo_dict THEN memo_dict
    ELSE DictSet(memo_dict, "memo_type",
            IF "thru_unit_name" \in DOMAIN memo_dict THEN <<"MEMORANDUM THRU">>
            ELSE IF "for_unit_name" \in DOMAIN memo_dict THEN <<"MEMORANDUM FOR">>
            ELSE <<"MEMORANDUM FOR RECORD">>)

\* lines 188-193: memo_dict["memo_type"] = ..., on the caller's dictionary
deduce_memo_type(memo_dict) ==
    DictSet(memo_dict, "memo_type",
            IF "thru_unit_name" \in DOMAIN memo_dict THEN <<"MEMORANDUM THRU">>
            ELSE IF "for_unit_name" \in DOMAIN memo_dict THEN <<"MEMORANDUM FOR">>
            ELSE <<"MEMORANDUM FOR RECORD">>)

\* MemoModel.from_dict
from_dict(memo_dict) ==
    LET d == deduce_memo_type(memo_dict)
        missing == MissingKeys(d)
    IN  IF RequiredInit \subseteq DOMAIN d /\ DOMAIN d \subseteq Fields
        THEN MemoModel(d)
        ELSE ErrorStr(<<"Missing the following keys: ">>
                        \o JoinComma([i \in 1..Len(missing) |-> inv_key_converter(missing[i])]))

----------------------------------------------------------------------------
(* parse_lines and what it calls                                           *)

\* atoms that stand for a run of one repeated character
LongRun == "x*1001"
HugeRun == "x*50001"

\* the number of characters of the words the model's inputs use (one
\* character atoms count 1)
WordLen ==
    [w \in {"Unit", "Memo", "Test", "Jane", "Main"} |-> 4]
      @@ [w \in {"ABC", "CPT", "Doe", "Top", "one", "two", "top", "FOO"} |-> 3]
      @@ [w \in {"EN", "St"} |-> 2]
      @@ [w \in {"level", "begin", "hline"} |-> 5]
      @@ [w \in {"tabular"} |-> 7]
      @@ [w \in {"Nested", "Second"} |-> 6]
      @@ [w \in {"Subject", "SUBJECT"} |-> 7]
      @@ [w \in {"item", "City"} |-> 4]
      @@ [w \in {LongRun} |-> 1001]
      @@ [w \in {HugeRun} |-> 50001]

AtomLen(a) == IF a \in DOMAIN WordLen THEN WordLen[a] ELSE 1

\* len(s)
RECURSIVE CharLen(_)
CharLen(s) ==
    IF s = <<>> THEN 0
    ELSE IF Len(s) = 1 THEN AtomLen(s[1])
    ELSE CharLen(SubSeq(s, 1, Len(s) \div 2)) + CharLen(SubSeq(s, Len(s) \div 2 + 1, Len(s)))

\* atoms made of characters in [A-Z0-9-] only
UpperAtoms == {"ABC", "CPT", "EN", "FOO", "SUBJECT", "A", "B", "C", "D", "E", "-"}

\* lines 355-360: drop blank lines and comment lines
FilterLines(ls) == SelectSeq(ls, LAMBDA line : Strip(line) # <<>> /\ Strip(line)[1] # "#")

\* the index of the first atom at or after i that is not whitespace (0: none)
SkipSpace(s, i) ==
    IF \E j \in i..Len(s) : s[j] \notin Whitespace
    THEN CHOOSE j \in i..Len(s) : s[j] \notin Whitespace /\ \A k \in i..(j - 1) : s[k] \in Whitespace
    ELSE 0

\* dangerous_patterns, in list order: <<command word, what must follow \s*>>
dangerous_patterns ==
    << <<"input", "{">>, <<"include", "{">>, <<"write", "{">>,
       <<"immediate", "">>, <<"openout", "">>, <<"read", "">>, <<"catcode", "">>,
       <<"def", BS>>, <<"let", BS>>, <<"expandafter", "">> >>

\* re.search(pattern, text)
PatternFound(text, pat) ==
    \E i \in 1..(Len(text) - 1) :
        /\ text[i] = BS /\ text[i + 1] = pat[1]
        /\ pat[2] # "" => (SkipSpace(text, i + 2) # 0 /\ text[SkipSpace(text, i + 2)] = pat[2])

NoError == <<>>

\* validate_input_text: <<>> for None, else the message
validate_input_text(text) ==
    IF Strip(text) = <<>> THEN <<"Input cannot be empty">>
    ELSE IF CharLen(text) > 50000
    THEN <<"Input text too long (maximum 50,000 characters)">>
    ELSE IF \E k \in 1..Len(dangerous_patterns) : PatternFound(text, dangerous_patterns[k])
    THEN LET k == CHOOSE k \in 1..Len(dangerous_patterns) :
                    /\ PatternFound(text, dangerous_patterns[k])
                    /\ \A j \in 1..(k - 1) : ~PatternFound(text, dangerous_patterns[j])
         IN  <<"Potentially unsafe LaTeX command detected: ", BS, dangerous_patterns[k][1]>>
    ELSE NoError

\* field.replace('_', ' ').title()
TitleOf(field) ==
    CASE field = "unit_name" -> "Unit Name"
      [] field = "office_symbol" -> "Office Symbol"
      [] field = "subject" -> "Subject"
      [] field = "author_name" -> "Author Name"
      [] field = "author_rank" -> "Author Rank"

required_fields == <<"unit_name", "office_symbol", "subject", "author_name", "author_rank">>

\* lines 328-334: the first required field that is missing, empty or too long
RECURSIVE CheckRequired(_, _)
CheckRequired(memo_dict, k) ==
    IF k > Len(required_fields) THEN NoError
    ELSE LET field == required_fields[k]
         IN  IF field \notin DOMAIN memo_dict \/ memo_dict[field] = <<>>
             THEN <<"Required field missing: ", TitleOf(field)>>
             ELSE IF CharLen(memo_dict[field]) > 500
             THEN <<"Field too long: ", TitleOf(field), " (maximum 500 characters)">>
             ELSE CheckRequired(memo_dict, k + 1)

\* validate_memo_fields: <<>> for None, else the message
validate_memo_fields(memo_dict) ==
    IF CheckRequired(memo_dict, 1) # NoError THEN CheckRequired(memo_dict, 1)
    ELSE IF CharLen(memo_dict["subject"]) < 3
    THEN <<"Subject must be at least 3 characters long">>
    ELSE LET office_symbol == Strip(memo_dict["office_symbol"])
         IN  IF CharLen(office_symbol) < 2
                  \/ ~\A k \in 1..Len(office_symbol) : office_symbol[k] \in UpperAtoms
             THEN <<"Office symbol should contain only uppercase letters, numbers, and hyphens">>
             ELSE NoError

\* "SUBJECT" in s
HasSubject(line) == \E k \in 1..Len(line) : line[k] = "SUBJECT"

\* (mutant) without a SUBJECT line the whole file is taken as the header
FindSubject_DefaultLast(ls) ==
    IF \E i \in 1..Len(ls) : HasSubject(ls[i])
    THEN CHOOSE i \in 1..Len(ls) : HasSubject(ls[i]) /\ \A j \in 1..(i - 1) : ~HasSubject(ls[j])
    ELSE Len(ls)

\* line 369: the index of the first line that contains SUBJECT; 0 stands for
\* the IndexError
FindSubject(ls) ==
    IF \E i \in 1..Len(ls) : HasSubject(ls[i])
    THEN CHOOSE i \in 1..Len(ls) : HasSubject(ls[i]) /\ \A j \in 1..(i - 1) : ~HasSubject(ls[j])
    ELSE 0

\* the header loop's state: the dict so far, and the message it returned with
HeaderState(d, err) == [memo_dict |-> d, err |-> err]

\* (mutant) a line whose key is not recognised is skipped
HeaderLine_SkipUnknown(memo_dict, line) ==
    IF Find(line, "=") = -1 THEN HeaderState(memo_dict, NoError)
    ELSE LET eq == Find(line, "=") + 1
             key == Strip(SubSeq(line, 1, eq - 1))
             text == Strip(SubSeq(line, eq + 1, Len(line)))
         IN  IF ~(Len(key) = 1 /\ key[1] \in KnownKeys)
             THEN HeaderState(memo_dict, NoError)
             ELSE IF CharLen(text) > 1000
             THEN HeaderState(memo_dict,
                      <<"ERROR: Field '">> \o key \o <<"' is too long (maximum 1000 characters)">>)
             ELSE LET field == FieldOfKey(key[1])
                      processed_text == add_latex_escape_chars(text)
                  IN  IF field \in list_keys
                      THEN HeaderState(
                              DictSet(memo_dict, field,
                                  Append(IF field \in DOMAIN memo_dict THEN memo_dict[field] ELSE <<>>,
                                         processed_text)),
                              NoError)
                      ELSE HeaderState(DictSet(memo_dict, field, processed_text), NoError)

\* lines 379-407: one header line
HeaderLine(memo_dict, line) ==
    IF Find(line, "=") = -1 THEN HeaderState(memo_dict, NoError)
    ELSE LET eq == Find(line, "=") + 1
             key == Strip(SubSeq(line, 1, eq - 1))
             text == Strip(SubSeq(line, eq + 1, Len(line)))
         IN  IF ~(Len(key) = 1 /\ key[1] \in KnownKeys)
             THEN HeaderState(memo_dict,
                      <<"ERROR: No such keyword as '">> \o key
                        \o <<"', please remove or fix line: ">> \o line)
             ELSE IF CharLen(text) > 1000
             THEN HeaderState(memo_dict,
                      <<"ERROR: Field '">> \o key \o <<"' is too long (maximum 1000 characters)">>)
             ELSE LET field == FieldOfKey(key[1])
                      processed_text == add_latex_escape_chars(text)
                  IN  IF field \in list_keys
                      THEN HeaderState(
                              DictSet(memo_dict, field,
                                  Append(IF field \in DOMAIN memo_dict THEN memo_dict[field] ELSE <<>>,
                                         processed_text)),
                              NoError)
                      ELSE HeaderState(DictSet(memo_dict, field, processed_text), NoError)

\* lines 377-407: the header loop over file_lines[:memo_begin_loc]
RECURSIVE HeaderFold(_, _, _, _)
HeaderFold(hs, ls, i, memo_begin_loc) ==
    IF i > memo_begin_loc \/ hs.err # NoError THEN hs
    ELSE HeaderFold(HeaderLine(hs.memo_dict, ls[i]), ls, i + 1, memo_begin_loc)

\* (mutant) no try around parse_memo_body: its exception escapes parse_lines
BodyOrError_NoTry(body) ==
    IF body.exc # "none" THEN Raised(body.exc) ELSE [kind |-> "body", s |-> <<>>]

\* lines 410-413: the body, or the message of the except clause
BodyOrError(body) ==
    IF body.exc # "none"
    THEN ErrorStr(<<"ERROR: Failed to parse memo body: ", body.exc>>)
    ELSE [kind |-> "body", s |-> <<>>]

\* lines 409-420, once the header loop has ended without an error
Construct(memo_dict0, ls, memo_begin_loc) ==
    LET body == parse_memo_body(SubSeq(ls, memo_begin_loc + 1, Len(ls)))
        caught == BodyOrError(body)
        memo_dict == DictSet(memo_dict0, "text", body.value)
    IN  IF caught.kind # "body" THEN caught
        ELSE IF validate_memo_fields(memo_dict) # NoError
        THEN ErrorStr(<<"FIELD VALIDATION ERROR: ">> \o validate_memo_fields(memo_dict))
        ELSE from_dict(memo_dict)

parse_lines(file_lines0) ==
    LET ls == FilterLines(file_lines0)
        validation_error == validate_input_text(JoinLines(ls))
        memo_begin_loc == FindSubject(ls)
        hs == HeaderFold(HeaderState(EmptyDict, NoError), ls, 1, memo_begin_loc)
    IN  IF validation_error # NoError
        THEN ErrorStr(<<"INPUT VALIDATION ERROR: ">> \o validation_error)
        ELSE IF memo_begin_loc = 0
        THEN ErrorStr(<<"ERROR: missing the keyword SUBJECT. ",
                        "Please add SUBJECT=(your subject) above the start of your memo">>)
        ELSE IF hs.err # NoError THEN ErrorStr(hs.err)
        ELSE Construct(hs.memo_dict, ls, memo_begin_loc)

----------------------------------------------------------------------------
(* Serialization back to Army Markdown                                     *)

\* nested_list_to_string
RECURSIVE nested_list_to_string(_, _)
nested_list_to_string(lst, indent) ==
    IF lst = <<>> THEN <<>>
    ELSE (IF Head(lst).kind = "list"
          THEN nested_list_to_string(Head(lst).kids, indent + 4)
          ELSE Spaces(indent) \o <<"-", " ">> \o remove_latex_escape_chars(Head(lst).s)
                 \o <<NL, NL>>)
           \o nested_list_to_string(Tail(lst), indent)

\* getattr(self, attrib, None) is truthy
Truthy(m, attrib) == attrib \notin m.none /\ m[attrib] # <<>>

\* lines 129-143 and 167-175: the scalar header keys to_amd writes
amd_scalar_keys ==
    << <<"ORGANIZATION_NAME", "unit_name">>,
       <<"ORGANIZATION_STREET_ADDRESS", "unit_street_address">>,
       <<"ORGANIZATION_CITY_STATE_ZIP", "unit_city_state_zip">>,
       <<"OFFICE_SYMBOL", "office_symbol">>,
       <<"DATE", "todays_date">>,
       <<"AUTHOR", "author_name">>,
       <<"RANK", "author_rank">>,
       <<"BRANCH", "author_branch">>,
       <<"TITLE", "author_title">>,
       <<"SUSPENSE", "suspense_date">>,
       <<"AUTHORITY", "authority">> >>

amd_list_keys ==
    << <<"ENCLOSURE", "enclosures">>, <<"DISTRO", "distros">>, <<"CF", "cfs">> >>

\* lines 145-165: the keys of the FOR and THRU blocks
amd_recipient_keys ==
    << <<"FOR_ORGANIZATION_NAME", "for_unit_name">>,
       <<"FOR_ORGANIZATION_STREET_ADDRESS", "for_unit_street_address">>,
       <<"FOR_ORGANIZATION_CITY_STATE_ZIP", "for_unit_city_state_zip">>,
       <<"THRU_ORGANIZATION_NAME", "thru_unit_name">>,
       <<"THRU_ORGANIZATION_STREET_ADDRESS", "thru_unit_street_address">>,
       <<"THRU_ORGANIZATION_CITY_STATE_ZIP", "thru_unit_city_state_zip">> >>

\* every header key to_amd can write, with the field it writes it from
amd_keys ==
    amd_scalar_keys \o amd_recipient_keys \o amd_list_keys \o << <<"SUBJECT", "subject">> >>

\* f"{write_key} = {value}\n"
AmdLine(write_key, value) == <<write_key, " ", "=", " ">> \o value \o <<NL>>

RECURSIVE AmdScalars(_, _)
AmdScalars(m, k) ==
    IF k > Len(amd_scalar_keys) THEN <<>>
    ELSE (IF Truthy(m, amd_scalar_keys[k][2])
          THEN AmdLine(amd_scalar_keys[k][1], m[amd_scalar_keys[k][2]])
          ELSE <<>>)
           \o AmdScalars(m, k + 1)

Min3(a, b, c) ==
    IF a <= b /\ a <= c THEN a ELSE IF b <= c THEN b ELSE c

\* lines 145-165: one block of three lines per zipped recipient
AmdRecipients(m, prefix, pre) ==
    Concat([i \in 1..Min3(Len(m[pre \o "_unit_name"]),
                          Len(m[pre \o "_unit_street_address"]),
                          Len(m[pre \o "_unit_city_state_zip"])) |->
              <<NL>> \o AmdLine(prefix \o "_ORGANIZATION_NAME", m[pre \o "_unit_name"][i])
                \o AmdLine(prefix \o "_ORGANIZATION_STREET_ADDRESS", m[pre \o "_unit_street_address"][i])
                \o AmdLine(prefix \o "_ORGANIZATION_CITY_STATE_ZIP", m[pre \o "_unit_city_state_zip"][i])])

\* zip() over a None raises TypeError
ZipRaises(m, pre) ==
    /\ Truthy(m, pre \o "_unit_name")
    /\ \/ (pre \o "_unit_street_address") \in m.none
       \/ (pre \o "_unit_city_state_zip") \in m.none

RECURSIVE AmdLists(_, _)
AmdLists(m, k) ==
    IF k > Len(amd_list_keys) THEN <<>>
    ELSE (IF Truthy(m, amd_list_keys[k][2])
          THEN <<NL>> \o Concat([i \in 1..Len(m[amd_list_keys[k][2]]) |->
                                   AmdLine(amd_list_keys[k][1], m[amd_list_keys[k][2]][i])])
          ELSE <<>>)
           \o AmdLists(m, k + 1)

\* MemoModel.to_amd: the text, or the exception it raises
to_amd(m) ==
    IF ZipRaises(m, "for") \/ ZipRaises(m, "thru")
    THEN [exc |-> "TypeError", text |-> <<>>]
    ELSE [exc |-> "none",
          text |-> AmdScalars(m, 1)
                     \o (IF Truthy(m, "for_unit_name") THEN AmdRecipients(m, "FOR", "for") ELSE <<>>)
                     \o (IF Truthy(m, "thru_unit_name") THEN AmdRecipients(m, "THRU", "thru") ELSE <<>>)
                     \o AmdLists(m, 1)
                     \o <<NL>> \o AmdLine("SUBJECT", m.subject) \o <<NL>>
                     \o nested_list_to_string(m.text, 0)]

\* text.split("\n")
RECURSIVE SplitLines(_)
SplitLines(text) ==
    IF Find(text, NL) = -1 THEN <<text>>
    ELSE <<SubSeq(text, 1, Find(text, NL))>>
           \o SplitLines(SubSeq(text, Find(text, NL) + 2, Len(text)))

\* MemoModel.from_text
from_text(text) == parse_lines(SplitLines(text))

----------------------------------------------------------------------------
(* Dictionaries with None values, to_dict and from_form                    *)

\* A dict some of whose values are None: the function on its keys (a key
\* holding None maps to <<>>) and the set of the keys that hold None.

\* MemoModel.to_dict: every dataclass field is a key, the None ones included
to_dict(m) == [dict |-> [f \in Fields |-> m[f]], none |-> m.none]

\* MemoModel.from_dict on a dict with None values: key tests (lines 188-193)
\* see the key whatever it holds, and cls(**memo_dict) stores a None as given
from_dict_none(pd) ==
    LET r == from_dict(pd.dict)
    IN  IF r.kind = "MemoModel"
        THEN [r EXCEPT !.none = (@ \cup pd.none) \ {"memo_type"}]
        ELSE r

\* r_key_converter = {v: k for k, v in key_converter.items()}
r_key_converter_keys == { key_converter[i][2] : i \in 1..Len(key_converter) }

\* lines 228-231: the values of key7 .. key1 that the form holds, in that order
FormValues(form_dict, key) ==
    LET present == SelectSeq(<<"7", "6", "5", "4", "3", "2", "1">>,
                             LAMBDA i : (key \o i) \in DOMAIN form_dict)
    IN  [n \in 1..Len(present) |-> form_dict[key \o present[n]]]

\* lines 210-212 and 226-234: the header fields of the form
FormDict(form_dict, text) ==
    [f \in { FieldOfKey(k) : k \in DOMAIN form_dict \cap KnownKeys }
           \cup { f \in list_keys \cap r_key_converter_keys :
                    FormValues(form_dict, inv_key_converter(f)) # <<>> }
           \cup {"text"} |->
        IF f = "text" THEN text
        ELSE IF f \in list_keys \cap r_key_converter_keys
                  /\ FormValues(form_dict, inv_key_converter(f)) # <<>>
        THEN FormValues(form_dict, inv_key_converter(f))
        ELSE form_dict[inv_key_converter(f)]]

\* MemoModel.from_form: the Document or error string, or the exception that
\* escapes.  Line 226 looks every member of list_keys up in r_key_converter
\* before the loop starts.
from_form(form_dict) ==
    IF "MEMO_TEXT" \notin DOMAIN form_dict THEN Raised("KeyError")
    ELSE LET body == parse_memo_body(FilterLines(SplitLines(form_dict["MEMO_TEXT"])))
         IN  IF body.exc # "none" THEN Raised(body.exc)
             ELSE IF \E key \in list_keys : key \notin r_key_converter_keys
             THEN Raised("KeyError")
             ELSE from_dict(FormDict(form_dict, body.value))

----------------------------------------------------------------------------
(* MemoWriter                                                              *)

\* f"\\{name}{{{arg}}}"
Directive(name, arg) == <<BS, name, "{">> \o arg \o <<"}">>

\* line 21: the class file is named by its absolute path, fixed by where the
\* package is installed
DocumentClass == Directive("documentclass", <<"armymemo-notikz">>)

\* f"{name}, {add}, {csz}"
Triple(name, add, csz) == name \o <<",", " ">> \o add \o <<",", " ">> \o csz

\* the i-th triple zip() yields from the three lists of a recipient block
ZipTriple(data, pre, i) ==
    Triple(data[pre \o "_unit_name"][i], data[pre \o "_unit_street_address"][i],
           data[pre \o "_unit_city_state_zip"][i])

ZipLen(data, pre) ==
    Min3(Len(data[pre \o "_unit_name"]), Len(data[pre \o "_unit_street_address"]),
         Len(data[pre \o "_unit_city_state_zip"]))

\* zip() raises TypeError when one of its arguments is None
ZipNone(data, pre) ==
    \E f \in {pre \o "_unit_name", pre \o "_unit_street_address", pre \o "_unit_city_state_zip"} :
        f \in data.none

\* (mutant) one directive per recipient, also for a single recipient
write_for_lines_AlwaysMulti(data) ==
    IF data.memo_type = <<"MEMORANDUM FOR RECORD">>
    THEN << Directive("memoline", <<"{", "MEMORANDUM FOR RECORD", "}">>) >>
    ELSE [i \in 1..ZipLen(data, "for") |-> Directive("multimemofor", ZipTriple(data, "for", i))]

\* MemoWriter._write_for_lines, when its zip() does not raise
write_for_lines(data) ==
    IF data.memo_type = <<"MEMORANDUM FOR RECORD">>
    THEN << Directive("memoline", <<"{", "MEMORANDUM FOR RECORD", "}">>) >>
    ELSE LET prefix == IF "thru_unit_name" \in data.none THEN "MEMORANDUM FOR" ELSE "FOR"
         IN  IF ZipLen(data, "for") = 0 THEN <<>>
             ELSE IF Len(data.for_unit_name) = 1
             THEN << Directive("memoline", <<prefix, " ">> \o ZipTriple(data, "for", 1)) >>
             ELSE [i \in 1..ZipLen(data, "for") |->
                      Directive("multimemofor", ZipTriple(data, "for", i))]

\* MemoWriter._write_thru_lines, when its zip() does not raise
write_thru_lines(data) ==
    IF ZipLen(data, "thru") = 0 THEN <<>>
    ELSE IF Len(data.thru_unit_name) = 1
    THEN << Directive("addmemoline",
                      <<"MEMORANDUM THRU", " ">> \o ZipTriple(data, "thru", 1) \o <<" ">>) >>
    ELSE [i \in 1..ZipLen(data, "thru") |->
             Directive("multimemothru", ZipTriple(data, "thru", i))]

\* MemoWriter._add_opt_strings
opt_strings == << <<"authority", "authority">>, <<"title", "author_title">>,
                  <<"suspensedate", "suspense_date">> >>

RECURSIVE add_opt_strings(_, _)
add_opt_strings(data, k) ==
    IF k > Len(opt_strings) THEN <<>>
    ELSE (IF opt_strings[k][2] \notin data.none
          THEN << Directive(opt_strings[k][1], data[opt_strings[k][2]]) >>
          ELSE <<>>)
           \o add_opt_strings(data, k + 1)

\* MemoWriter._add_opt_lists
opt_lists == << <<"addencl", "enclosures">>, <<"adddistro", "distros">>, <<"addcf", "cfs">> >>

RECURSIVE add_opt_lists(_, _)
add_opt_lists(data, k) ==
    IF k > Len(opt_lists) THEN <<>>
    ELSE (IF opt_lists[k][2] \notin data.none
          THEN [i \in 1..Len(data[opt_lists[k][2]]) |->
                   Directive(opt_lists[k][1], data[opt_lists[k][2]][i])]
          ELSE <<>>)
           \o add_opt_lists(data, k + 1)

\* lines 153-164: the lines _write_admin appends before the recipient blocks
admin_head(data) ==
    << Directive("address", data.unit_name),
       Directive("address", data.unit_street_address),
       Directive("address", data.unit_city_state_zip),
       Directive("author", data.author_name) \o Directive("rank", data.author_rank)
         \o Directive("branch", data.author_branch),
       Directive("officesymbol", data.office_symbol),
       Directive("signaturedate", data.todays_date),
       Directive("subject", data.subject) >>

ThruRaises(data) == data.memo_type = <<"MEMORANDUM THRU">> /\ ZipNone(data, "thru")
ForRaises(data) == data.memo_type # <<"MEMORANDUM FOR RECORD">> /\ ZipNone(data, "for")

\* MemoWriter._write_admin: the lines it appends to self.lines, and the
\* exception that ends it
write_admin(data) ==
    IF ThruRaises(data) THEN [exc |-> "TypeError", lines |-> admin_head(data)]
    ELSE LET thru == IF data.memo_type = <<"MEMORANDUM THRU">>
                     THEN write_thru_lines(data) ELSE <<>>
         IN  IF ForRaises(data)
             THEN [exc |-> "TypeError", lines |-> admin_head(data) \o thru]
             ELSE [exc |-> "none",
                   lines |-> admin_head(data) \o thru \o write_for_lines(data)
                               \o add_opt_lists(data, 1) \o add_opt_strings(data, 1)]

\* the index of the atom reached n characters after atom i
RECURSIVE SkipChars(_, _, _)
SkipChars(a, i, n) ==
    IF n <= 0 \/ i > Len(a) THEN i ELSE SkipChars(a, i + 1, n - AtomLen(a[i]))

\* "".join(["|" + c for c in spec]) + "|"
Ruled(spec) == Concat([k \in 1..Len(spec) |-> <<"|", spec[k]>>]) \o <<"|">>

\* MemoWriter._process_table: vertical rules in the column specification and
\* a rule after each data row but the last.  When the slice a[s1:s2] is empty
\* (no column specification is found), replace() puts a "|" around every
\* character; the model puts it around every atom.
MemoWriter_process_table(a) ==
    LET s1 == SkipChars(a, Find(a, "tabular") + 1, 9)
        closes == {j \in s1..Len(a) : a[j] = "}"}
        s2 == IF closes = {} THEN Len(a)
              ELSE CHOOSE j \in closes : \A k \in closes : j <= k
        spec == SubSeq(a, s1, s2 - 1)
        new_a == IF spec = <<>>
                 THEN <<"|">> \o Concat([k \in 1..Len(a) |-> <<a[k], "|">>])
                 ELSE Replace(a, spec, Ruled(spec))
        rows == SplitLines(new_a)
    IN  JoinLines([i \in 1..Len(rows) |->
                     IF i - 1 >= 4 /\ i - 1 < Len(rows) - 3
                     THEN Replace(rows[i], <<BS, BS>>, <<BS, BS, BS, "hline">>)
                     ELSE rows[i]])

\* MemoWriter._iterate_lols: the lines it appends
RECURSIVE iterate_lols(_)
iterate_lols(lol) ==
    IF lol = <<>> THEN <<>>
    ELSE (IF Head(lol).kind = "list"
          THEN << Directive("begin", <<"enumerate">>) >> \o iterate_lols(Head(lol).kids)
                 \o << Directive("end", <<"enumerate">>) >>
          ELSE IF Contains(Head(lol).s, <<"tabular">>)
          THEN << <<>>, <<>>, Directive("begin", <<"center">>),
                  MemoWriter_process_table(Head(lol).s), Directive("end", <<"center">>) >>
          ELSE << <<BS, "item", " ">> \o Head(lol).s >>)
           \o iterate_lols(Tail(lol))

\* MemoWriter._write_body
write_body(data) ==
    << Directive("begin", <<"document">>), Directive("begin", <<"enumerate">>) >>
      \o iterate_lols(data.text)
      \o << Directive("end", <<"enumerate">>), Directive("end", <<"document">>) >>

\* MemoWriter.write on a writer whose self.lines is lines0: self.lines after
\* the call, the exception that ended it, and the text written to the file
\* (print("\n".join(self.lines), file=f))
write(data, lines0) ==
    LET admin == write_admin(data)
        begun == Append(lines0, DocumentClass) \o admin.lines
    IN  IF admin.exc # "none" THEN [exc |-> admin.exc, lines |-> begun, out |-> <<>>]
        ELSE [exc |-> "none", lines |-> begun \o write_body(data),
              out |-> JoinLines(begun \o write_body(data)) \o <<NL>>]

----------------------------------------------------------------------------
(* Escaper runs: escape a raw string, then unescape the result             *)

MaxAtoms == 3

\* the pieces raw strings are built from
RawAtoms ==
    { <<"a">>, <<"~">>, <<"^">>, <<BS>>, <<"&">>, <<"_">>, <<"{">>, <<"}">>,
      <<" ">>, Stars(1), Stars(2), Stars(3) }

RawStrings ==
    { Concat(ss) : ss \in UNION { [1..n -> RawAtoms] : n \in 0..MaxAtoms } }

InitEsc ==
    /\ e_in \in RawStrings
    /\ e_esc = <<>>
    /\ e_unesc = <<>>
    /\ e_pc = "raw"
    /\ BodyOff /\ DocOff /\ WrOff /\ DictOff

Escape ==
    /\ e_pc = "raw"
    /\ e_esc' = add_latex_escape_chars(e_in)
    /\ e_pc' = "escaped"
    /\ UNCHANGED <<e_in, e_unesc, not_esc>>

Unescape ==
    /\ e_pc = "escaped"
    /\ e_unesc' = remove_latex_escape_chars(e_esc)
    /\ e_pc' = "unescaped"
    /\ UNCHANGED <<e_in, e_esc, not_esc>>

NextEsc == Escape \/ Unescape

SpecEsc == InitEsc /\ [][NextEsc]_vars

----------------------------------------------------------------------------
(* Body parser runs: parse_memo_body over a list of body lines, one loop   *)
(* iteration per step                                                      *)

MaxNestLines == 5
MaxBodyLines == 4
MaxDataRows == 2

\* the dash columns of the nesting inputs: regular and irregular widths
DashCols == {0, 3, 4, 7, 8}

\* the i-th line of a nesting input: a dash at column c, then a text of i letters
NestLine(c, i) == Spaces(c) \o <<"-", " ">> \o [k \in 1..i |-> "a"]

NestInput(cols) == [i \in 1..Len(cols) |-> NestLine(cols[i], i)]

NestInputs ==
    { NestInput(cols) : cols \in UNION { [1..n -> DashCols] : n \in 1..MaxNestLines } }

ItemA == <<"-", " ", "A">>
ItemB == <<" ", " ", "-", " ", "B">>
RowPlain == <<"|", "h", "|", "i", "|">>
RowSeparator == <<"|", "-", "-", "|", "-", "-", "|">>
RowDashCell == <<"|", "a", "-", "b", "|", "c", "|">>
Paragraph == <<"p", "&", "q">>

MixedLines == {ItemA, ItemB, RowPlain, RowSeparator, RowDashCell, Paragraph}

MixedInputs == UNION { [1..n -> MixedLines] : n \in 0..MaxBodyLines }

\* a dash item, a table block (header row, separator row, data rows), a dash item
TableInputs ==
    { <<first, RowPlain, RowSeparator>> \o rows \o <<last>> :
        first \in {ItemA, ItemB}, last \in {ItemA, ItemB},
        rows \in UNION { [1..n -> {RowPlain, RowDashCell}] : n \in 1..MaxDataRows } }

InitBody ==
    /\ lines \in NestInputs \cup MixedInputs \cup TableInputs
    /\ pos = 1
    /\ master_list = BodyInit.master_list
    /\ cur_indent = BodyInit.cur_indent
    /\ indent_levels = BodyInit.indent_levels
    /\ table = BodyInit.table
    /\ b_pc = "loop"
    /\ EscOff /\ DocOff /\ WrOff /\ DictOff

\* the loop body applied to the current line
Iterate ==
    \E st \in {BodyStep(BodyState(master_list, cur_indent, indent_levels, table, "none"),
                        lines[pos])} :
        /\ master_list' = st.master_list
        /\ cur_indent' = st.cur_indent
        /\ indent_levels' = st.indent_levels
        /\ table' = st.table
        /\ b_pc' = IF st.exc = "none" THEN "loop" ELSE "raised"
        /\ pos' = pos + 1
        /\ UNCHANGED <<lines, not_body>>

AtLine == b_pc = "loop" /\ pos <= Len(lines)

\* lines 257-259
BufferTableRow == AtLine /\ IsTableRow(lines[pos]) /\ Iterate

\* lines 260-266
ContinueParagraph == AtLine /\ IsParagraph(lines[pos]) /\ Iterate

\* lines 267-285
AppendItem == AtLine /\ ~IsTableRow(lines[pos]) /\ ~IsParagraph(lines[pos]) /\ Iterate

\* line 287
ReturnBody ==
    /\ b_pc = "loop" /\ pos > Len(lines)
    /\ b_pc' = "returned"
    /\ UNCHANGED <<lines, pos, master_list, cur_indent, indent_levels, table, not_body>>

NextBody == BufferTableRow \/ ContinueParagraph \/ AppendItem \/ ReturnBody

SpecBody == InitBody /\ [][NextBody]_vars

----------------------------------------------------------------------------
(* Properties of the body parser                                           *)

\* the nesting depth of every str of a body tree, in tree order (0: root)
RECURSIVE DepthsOf(_, _)
DepthsOf(lst, d) ==
    IF lst = <<>> THEN <<>>
    ELSE (IF Head(lst).kind = "list" THEN DepthsOf(Head(lst).kids, d + 1) ELSE <<d>>)
           \o DepthsOf(Tail(lst), d)

\* what a dash line looks like in the source text
FirstInk(line) == LStrip(line)[1]
DashColumn(line) == Len(line) - Len(LStrip(line))
IsDashItem(line) == LStrip(line) # <<>> /\ FirstInk(line) = "-"
ItemTextOf(line) == add_latex_escape_chars(Strip(Tail(LStrip(line))))

\* a table-free body of dash items, the first at column 0, in which no line
\* deeper than its predecessor skips a column seen before
FirstSeenOrdered(ls) ==
    /\ ls # <<>>
    /\ \A i \in 1..Len(ls) : IsDashItem(ls[i]) /\ Count(ls[i], "-") = 1 /\ Count(ls[i], "|") = 0
    /\ DashColumn(ls[1]) = 0
    /\ \A i \in 2..Len(ls) :
          DashColumn(ls[i]) > DashColumn(ls[i - 1]) =>
              ~\E j \in 1..(i - 1) :
                   /\ DashColumn(ls[j]) > DashColumn(ls[i - 1])
                   /\ DashColumn(ls[j]) < DashColumn(ls[i])

\* the number of distinct dash columns among lines 1..i smaller than line i's
SmallerColumnsSeen(ls, i) ==
    Cardinality({ DashColumn(ls[j]) : j \in { k \in 1..i : DashColumn(ls[k]) < DashColumn(ls[i]) } })

Leaf(i) == Str([k \in 1..i |-> "a"])

\* C3: in a table-free body that starts at column 0 and never skips a seen
\* column when going deeper, every Item sits at the depth given by the number
\* of distinct smaller dash columns seen so far, in source order; dash columns
\* [0, 4, 8, 4, 0] and [0, 3, 7, 3, 0] both give [A, [B, [C], D], E].
C3_IndentationFidelity ==
    (b_pc \in {"loop", "returned"} /\ FirstSeenOrdered(lines)) =>
        /\ DepthsOf(master_list, 0) = [i \in 1..(pos - 1) |-> SmallerColumnsSeen(lines, i)]
        /\ flatten(master_list) = [i \in 1..(pos - 1) |-> ItemTextOf(lines[i])]
        /\ (b_pc = "returned" /\ lines \in {NestInput(<<0, 4, 8, 4, 0>>), NestInput(<<0, 3, 7, 3, 0>>)}) =>
              master_list = <<Leaf(1), List(<<Leaf(2), List(<<Leaf(3)>>), Leaf(4)>>), Leaf(5)>>

C3_Witness ==
    /\ b_pc = "returned"
    /\ lines = NestInput(<<0, 3, 7, 3, 0>>)
    /\ DepthsOf(master_list, 0) = <<0, 1, 2, 1, 0>>

\* the container of every str of a body tree, in tree order: the indices
\* that lead from the root to the list that holds it
RECURSIVE PathsOf(_, _)
PathsOf(lst, path) ==
    IF lst = <<>> THEN <<>>
    ELSE LET n == Len(lst)
         IN  PathsOf(SubSeq(lst, 1, n - 1), path)
               \o (IF lst[n].kind = "list" THEN PathsOf(lst[n].kids, path \o <<n>>)
                   ELSE <<path>>)

\* a table-free body of dash items only
DashItemsOnly(ls) ==
    /\ ls # <<>>
    /\ \A i \in 1..Len(ls) : IsDashItem(ls[i]) /\ Count(ls[i], "-") = 1 /\ Count(ls[i], "|") = 0

\* line j is the earlier line that line i closes back to: same column, and no
\* line between them at a smaller column
ClosesBackTo(ls, i, j) ==
    /\ j < i
    /\ DashColumn(ls[j]) = DashColumn(ls[i])
    /\ \A k \in j..i : DashColumn(ls[k]) >= DashColumn(ls[i])

\* C21: in a table-free body, a dash line at the column of an earlier dash
\* line, with no dash line at a smaller column between them, is appended to
\* the container of the earlier one, also when the first dash line is indented.
C21_SiblingsShareContainer ==
    (b_pc \in {"loop", "returned"} /\ DashItemsOnly(lines)) =>
        \A i \in 1..(pos - 1) : \A j \in 1..(pos - 1) :
            ClosesBackTo(lines, i, j) =>
                PathsOf(master_list, <<>>)[i] = PathsOf(master_list, <<>>)[j]

\* a pipe-delimited row, a separator row, an ordinary dash item
IsPipeRow(line) == line # <<>> /\ line[1] = "|" /\ Count(line, "|") >= 2
IsSeparatorRow(line) == IsPipeRow(line) /\ \A k \in 1..Len(line) : line[k] \in {"|", "-"}
IsOrdinaryItem(line) == IsDashItem(line) /\ Count(line, "|") = 0

\* the body is an ordinary dash item, a block of pipe-delimited rows (header
\* row, separator row, data rows) and an ordinary dash item
TableBetweenItems(ls) ==
    /\ Len(ls) >= 5
    /\ IsOrdinaryItem(ls[1]) /\ IsOrdinaryItem(ls[Len(ls)])
    /\ \A i \in 2..(Len(ls) - 1) : IsPipeRow(ls[i])
    /\ IsSeparatorRow(ls[3])
    /\ \A i \in (2..(Len(ls) - 1)) \ {3} : ~IsSeparatorRow(ls[i])

\* C9: a block of contiguous pipe-delimited rows between two ordinary dash
\* items gives exactly Item, Table, Item, and no other node.
C9_TableBetweenItems ==
    (b_pc = "returned" /\ TableBetweenItems(lines)) =>
        flatten(master_list) =
            << ItemTextOf(lines[1]),
               process_table(SubSeq(lines, 2, Len(lines) - 1)),
               ItemTextOf(lines[Len(lines)]) >>

\* the index of the last line before line i that was emitted as an Item (0: none)
LastItemLine(ls, i) ==
    LET items == { j \in 1..(i - 1) : Find(ls[j], "-") # -1 /\ ~IsTableRow(ls[j]) }
    IN  IF items = {} THEN 0 ELSE CHOOSE j \in items : \A k \in items : k <= j

\* the text of the Item emitted for line: what follows its first dash
EmittedTextOf(line) ==
    add_latex_escape_chars(Strip(SubSeq(line, Find(line, "-") + 2, Len(line))))

IsPrefix(p, t) == Len(p) <= Len(t) /\ SubSeq(t, 1, Len(p)) = p

\* the tree with every text blanked: its shape
RECURSIVE ShapeOf(_)
ShapeOf(lst) ==
    [i \in 1..Len(lst) |-> IF lst[i].kind = "list" THEN List(ShapeOf(lst[i].kids)) ELSE Str(<<>>)]

\* C10: a line with no dash that is not a table row adds no node; its escaped
\* text goes, after a blank line, to the end of the most recently emitted
\* Item, nested or not, and nothing else changes.
C10_ParagraphContinuation ==
    [][ (AtLine /\ Find(lines[pos], "-") = -1 /\ Count(lines[pos], "|") < 2
           /\ LastItemLine(lines, pos) > 0) =>
          LET f == flatten(master_list)
              g == flatten(master_list')
          IN  /\ b_pc' = "loop"
              /\ ShapeOf(master_list') = ShapeOf(master_list)
              /\ table' = table
              /\ Len(g) = Len(f)
              /\ \A i \in 1..(Len(f) - 1) : g[i] = f[i]
              /\ IsPrefix(EmittedTextOf(lines[LastItemLine(lines, pos)]), f[Len(f)])
              /\ g[Len(f)] = f[Len(f)] \o <<NL, NL>> \o add_latex_escape_chars(Strip(lines[pos]))
      ]_vars

C10_Witness ==
    /\ b_pc = "returned"
    /\ lines = <<ItemA, ItemB, Paragraph>>
    /\ master_list = <<Str(<<"A">>), List(<<Str(<<"B", NL, NL, "p", BS, "&", "q">>)>>)>>

\* C22: when rows are buffered and an Item has been emitted, the next line
\* with fewer than two pipes (a dash item or a paragraph) empties the buffer
\* into one Table node that follows the nodes emitted so far, which stay as
\* they are.
C22_NonTableLineClosesTable ==
    [][ (AtLine /\ table # <<>> /\ master_list # <<>> /\ Count(lines[pos], "|") < 2) =>
          LET f == flatten(master_list)
              g == flatten(master_list')
          IN  /\ table' = <<>>
              /\ Len(g) > Len(f)
              /\ g[Len(f) + 1] = process_table(table)
              /\ \A i \in 1..Len(f) : g[i] = f[i]
      ]_vars

\* C25: a line with two or more pipes that does not start with a dash is
\* buffered as a table row and adds nothing to the tree, also when one cell
\* of it holds a single "-".
C25_PipeRowIsBuffered ==
    [][ (AtLine /\ Count(lines[pos], "|") >= 2 /\ ~IsDashItem(lines[pos])) =>
          /\ table' = Append(table, lines[pos])
          /\ master_list' = master_list
          /\ b_pc' = "loop"
      ]_vars

\* the index of the first line of the block of table rows the body ends
\* with (Len + 1: the body does not end with a table row)
TrailingRowStart(ls) ==
    CHOOSE i \in 1..(Len(ls) + 1) :
        /\ \A k \in i..Len(ls) : IsTableRow(ls[k])
        /\ i > 1 => ~IsTableRow(ls[i - 1])

\* C27: when the body ends with a block of table rows that follows a dash
\* item, the result ends with the Table node of those rows, and no row is
\* left in the buffer.
C27_TrailingTableEmitted ==
    (b_pc = "returned" /\ TrailingRowStart(lines) \in 2..Len(lines)
        /\ IsOrdinaryItem(lines[TrailingRowStart(lines) - 1])) =>
        /\ table = <<>>
        /\ flatten(master_list) # <<>>
        /\ flatten(master_list)[Len(flatten(master_list))] =
              process_table(SubSeq(lines, TrailingRowStart(lines), Len(lines)))

----------------------------------------------------------------------------
(* Document runs: parse_lines on a file, to_amd on the Document it         *)
(* returns, from_text on that text                                         *)

MaxOmitted == 2

\* f"{key} = {value}" as a user writes it
HeaderText(key, value) == <<key, " ", "=", " ">> \o value

\* a complete, valid header, in the usual order
BaseHeader(author) ==
    << HeaderText("ORGANIZATION_NAME", <<"Unit">>),
       HeaderText("ORGANIZATION_STREET_ADDRESS", <<"Main", " ", "St">>),
       HeaderText("ORGANIZATION_CITY_STATE_ZIP", <<"City">>),
       HeaderText("OFFICE_SYMBOL", <<"ABC">>),
       HeaderText("AUTHOR", author),
       HeaderText("RANK", <<"CPT">>),
       HeaderText("BRANCH", <<"EN">>),
       HeaderText("TITLE", <<"Top">>),
       HeaderText("SUBJECT", <<"Memo">>) >>

AuthorValues == { <<"Jane">>, <<"A", "&", "B">> }

UnknownKeyLine == HeaderText("FOO", <<"a">>)
TooLongLine == HeaderText("TITLE", <<LongRun>>)

\* lines put above the header
Prefixes ==
    { <<>>, <<UnknownKeyLine>>, <<TooLongLine>>,
      <<UnknownKeyLine, TooLongLine>>, <<TooLongLine, UnknownKeyLine>>,
      << <<"#", " ", "SUBJECT">>, <<" ">> >> }

\* bodies: none, one item, a paragraph before any item, nested items with a
\* paragraph and a reserved character
Bodies ==
    { <<>>, <<ItemA>>, <<Paragraph>>,
      << <<"-", " ", "a", "_", "b">>, ItemB, Paragraph >> }

\* the sequence ls without the lines at the indices in omit
Without(ls, omit) == SelectSeq([i \in 1..Len(ls) |-> <<i, ls[i]>>], LAMBDA p : p[1] \notin omit)

\* the sequence ls without its line i
DropLine(ls, i) == SubSeq(ls, 1, i - 1) \o SubSeq(ls, i + 1, Len(ls))

Omissions == { o \in SUBSET (1..9) : Cardinality(o) <= MaxOmitted }

HeaderInputs ==
    { pre \o [i \in 1..Len(kept) |-> kept[i][2]] \o body :
        pre \in Prefixes, body \in Bodies,
        kept \in { Without(BaseHeader(author), omit) : author \in AuthorValues, omit \in Omissions } }

\* the example of the specification, and the same with the header completed
ExampleBody ==
    << <<"-", " ", "Top", " ", "level", " ", "item">>,
       Spaces(4) \o <<"-", " ", "Nested", " ", "item", " ", "one">>,
       Spaces(4) \o <<"-", " ", "Nested", " ", "item", " ", "two">>,
       <<"-", " ", "Second", " ", "top", " ", "level", " ", "item">> >>

ExampleHeader ==
    << <<"ORGANIZATION_NAME", "=", "Test", " ", "Unit">>,
       <<"AUTHOR", "=", "Jane", " ", "Doe">>,
       <<"RANK", "=", "CPT">>,
       <<"BRANCH", "=", "EN">>,
       <<"SUBJECT", "=", "Test", " ", "Subject">> >>

SpecExample == ExampleHeader \o << <<>> >> \o ExampleBody

CompletedExample ==
    << <<"ORGANIZATION_STREET_ADDRESS", "=", "Main", " ", "St">>,
       <<"ORGANIZATION_CITY_STATE_ZIP", "=", "City">>,
       <<"OFFICE_SYMBOL", "=", "ABC">> >> \o SpecExample

MaxRecipients == 2

\* the three header lines of the i-th recipient of a FOR or THRU block
RecipientLines(prefix, i) ==
    << HeaderText(prefix \o "_ORGANIZATION_NAME", <<"N", i>>),
       HeaderText(prefix \o "_ORGANIZATION_STREET_ADDRESS", <<"S", i>>),
       HeaderText(prefix \o "_ORGANIZATION_CITY_STATE_ZIP", <<"Z", i>>) >>

RecipientDigits == <<"1", "2", "3">>

RecipientBlock(prefix, n) == Concat([i \in 1..n |-> RecipientLines(prefix, RecipientDigits[i])])

\* complete blocks of up to MaxRecipients recipients, and FOR and THRU blocks
\* whose last recipient lacks its street line
RecipientHeaders ==
    { RecipientBlock("THRU", nt) \o RecipientBlock("FOR", nf) :
        nt \in 0..MaxRecipients, nf \in 0..MaxRecipients }
    \cup { RecipientBlock("THRU", nt) \o DropLine(RecipientBlock("FOR", nf), 3 * nf - 1) :
        nt \in 0..1, nf \in 1..MaxRecipients }
    \cup { DropLine(RecipientBlock("THRU", nt), 3 * nt - 1) \o RecipientBlock("FOR", 1) :
        nt \in 1..MaxRecipients }

\* a complete header with the recipient lines above SUBJECT
WithRecipients(recipients, body) ==
    SubSeq(BaseHeader(<<"Jane">>), 1, 8) \o recipients
      \o <<BaseHeader(<<"Jane">>)[9]>> \o body

\* recipient blocks, complete and incomplete, above SUBJECT
RecipientInputs == { WithRecipients(r, <<ItemA>>) : r \in RecipientHeaders }

\* a complete header with one more line above SUBJECT, for the k-th key
\* that to_amd writes
AmdKeyInput(k) == WithRecipients(<<HeaderText(amd_keys[k][1], <<"ABC">>)>>, <<ItemA>>)

AmdKeyInputs == { AmdKeyInput(k) : k \in 1..(Len(amd_keys) - 1) }

\* a complete header whose i-th line has a value that contains the word
\* SUBJECT, and one item
SubjectValueInput(i) ==
    [BaseHeader(<<"Jane">>) EXCEPT ![i] = SubSeq(@, 1, 4) \o <<"SUBJECT", " ", "Top">>]
      \o <<ItemA>>

SubjectValueLines == {1, 5, 8}

SubjectValueInputs == { SubjectValueInput(i) : i \in SubjectValueLines }

MaxDocNestLines == 3

\* complete headers followed by dash items at columns 0, 4 and 8 in any
\* order, the first line indented or not
NestDocInputs ==
    { WithRecipients(<<>>, NestInput(cols)) :
        cols \in UNION { [1..n -> {0, 4, 8}] : n \in 1..MaxDocNestLines } }

\* files that are not memos at all
OddInputs ==
    { <<>>, << <<>> >>, << <<"a", " ", "b">>, <<"a">> >>, <<ItemA, ItemB>>,
      << <<"TITLE", " ", "=", " ", BS, "immediate">> >>,
      << <<HugeRun>> >>,
      << <<"SUBJECT">>, ItemA >>,
      [BaseHeader(<<"Jane">>) EXCEPT ![9] = <<"SUBJECT">>] \o <<ItemA>>,
      [BaseHeader(<<"Jane">>) EXCEPT ![7] = <<"BRANCH", " ", "=", " ">>] \o <<ItemA>> }

DocInputs ==
    HeaderInputs \cup OddInputs \cup {SpecExample, CompletedExample}
      \cup RecipientInputs \cup AmdKeyInputs \cup SubjectValueInputs \cup NestDocInputs

InitDoc ==
    /\ default_date = ImportDate
    /\ file_lines \in DocInputs
    /\ result = Unset
    /\ amd = [exc |-> "none", text |-> <<>>]
    /\ result2 = Unset
    /\ p_pc = "input"
    /\ today = 0
    /\ EscOff /\ BodyOff /\ WrOff /\ DictOff

\* MemoModel.from_text / from_file on the input
Parse ==
    /\ p_pc = "input"
    /\ result' = parse_lines(file_lines)
    /\ p_pc' = "parsed"
    /\ UNCHANGED <<default_date, file_lines, amd, result2, today, not_doc>>

\* result.to_amd()
WriteAmd ==
    /\ p_pc = "parsed" /\ result.kind = "MemoModel"
    /\ amd' = to_amd(result)
    /\ p_pc' = "written"
    /\ UNCHANGED <<default_date, file_lines, result, result2, today, not_doc>>

\* MemoModel.from_text(amd)
Reparse ==
    /\ p_pc = "written" /\ amd.exc = "none"
    /\ result2' = from_text(amd.text)
    /\ p_pc' = "reparsed"
    /\ UNCHANGED <<default_date, file_lines, result, amd, today, not_doc>>

NextDoc == Parse \/ WriteAmd \/ Reparse

SpecDoc == InitDoc /\ [][NextDoc]_vars

----------------------------------------------------------------------------
(* Writer runs: write() calls on a MemoWriter made for a parsed Document   *)

MaxWrites == 2

RowWide == <<"|", "a", "|", "b", "|", "c", "|">>
ItemTabular == <<" ", " ", "-", " ", "a", " ", "tabular">>

\* bodies: an item; nested items; a table that parses; a table whose data
\* row is wider than its header row; an item that names an environment
WriterBodies ==
    { <<ItemA>>,
      <<ItemA, ItemB, ItemA>>,
      <<ItemA, RowPlain, RowSeparator, RowPlain, ItemA>>,
      <<ItemA, RowPlain, RowSeparator, RowWide, ItemA>>,
      <<ItemA, ItemTabular>> }

WriterInputs ==
    { WithRecipients(r, b) : r \in RecipientHeaders, b \in WriterBodies }
    \cup { DropLine(WithRecipients(<<>>, b), 8) : b \in WriterBodies }

WriterDocs == { d \in { parse_lines(f) : f \in WriterInputs } : d.kind = "MemoModel" }

InitWrite ==
    /\ EscOff /\ BodyOff /\ DocOff /\ DictOff
    /\ w_data \in WriterDocs
    /\ w_lines = <<>>
    /\ w_out = <<>>
    /\ w_exc = "none"
    /\ w_pc = 0

\* writer.write(output_file)
WriteFile ==
    /\ w_pc >= 0 /\ w_pc < MaxWrites
    /\ \E r \in {write(w_data, w_lines)} :
          /\ w_lines' = r.lines
          /\ w_exc' = r.exc
          /\ w_out' = r.out
    /\ w_pc' = w_pc + 1
    /\ UNCHANGED <<w_data, not_wr>>

\* MemoWriter(data): another writer for the same Document
NewWriter ==
    /\ w_pc > 0
    /\ w_lines' = <<>>
    /\ w_out' = <<>>
    /\ w_exc' = "none"
    /\ w_pc' = 0
    /\ UNCHANGED <<w_data, not_wr>>

NextWrite == WriteFile \/ NewWriter

SpecWrite == InitWrite /\ [][NextWrite]_vars

----------------------------------------------------------------------------
(* Clock runs: a process that imported the module on day 0 and parses a    *)
(* file on that day or a later one                                         *)

MaxDays == 2

DateLine == HeaderText("DATE", <<"01", " ", "May", " ", "2022">>)

\* complete headers with and without a DATE line
DateInputs ==
    { SubSeq(BaseHeader(author), 1, 4) \o date \o SubSeq(BaseHeader(author), 5, 9) \o body :
        author \in AuthorValues, date \in {<<>>, <<DateLine>>}, body \in Bodies }

InitDate ==
    /\ default_date = ImportDate
    /\ today = 0
    /\ file_lines \in DateInputs
    /\ result = Unset
    /\ amd = [exc |-> "none", text |-> <<>>]
    /\ result2 = Unset
    /\ p_pc = "input"
    /\ EscOff /\ BodyOff /\ WrOff /\ DictOff

\* the date changes while the process keeps running; the class attribute
\* MemoModel.todays_date is not computed again
Midnight ==
    /\ today < MaxDays
    /\ today' = today + 1
    /\ UNCHANGED <<default_date, file_lines, result, amd, result2, p_pc, not_doc>>

NextDate == Midnight \/ Parse \/ WriteAmd \/ Reparse

SpecDate == InitDate /\ [][NextDate]_vars

----------------------------------------------------------------------------
(* Dictionary runs: from_dict on a caller's dictionary, to_dict on the     *)
(* Document and from_dict again; from_form on a submitted form             *)

\* the dictionary of test_memo_type_detection
BaseDict ==
    [f \in RequiredInit |->
        CASE f = "unit_name" -> <<"Unit">>
          [] f = "unit_street_address" -> <<"Main", " ", "St">>
          [] f = "unit_city_state_zip" -> <<"City">>
          [] f = "office_symbol" -> <<"ABC">>
          [] f = "subject" -> <<"Memo">>
          [] f = "text" -> <<>>
          [] f = "author_name" -> <<"Jane">>
          [] f = "author_rank" -> <<"CPT">>
          [] OTHER -> <<"EN">>]

\* the three lists of one recipient
RecipientDict(pre) ==
    [f \in {pre \o "_unit_name", pre \o "_unit_street_address", pre \o "_unit_city_state_zip"} |->
        << <<"N", f>> >>]

\* how a caller may supply a recipient block: not at all, as three lists, or
\* as a unit name key that holds an empty list or None
RecipientChoices(pre) ==
    { [dict |-> EmptyDict, none |-> {}],
      [dict |-> RecipientDict(pre), none |-> {}],
      [dict |-> [f \in {pre \o "_unit_name"} |-> <<>>], none |-> {}],
      [dict |-> [f \in {pre \o "_unit_name"} |-> <<>>], none |-> {pre \o "_unit_name"}] }

MemoTypeChoices ==
    { EmptyDict } \cup
    { [f \in {"memo_type"} |-> <<t>>] :
        t \in {"MEMORANDUM FOR RECORD", "MEMORANDUM FOR", "MEMORANDUM THRU"} }

\* the dictionaries of the runs: complete, or without author_name
DictInputs ==
    { [dict |-> [f \in DOMAIN base |-> base[f]] @@ thru.dict @@ for.dict @@ mt,
       none |-> thru.none \cup for.none] :
        base \in { BaseDict, [f \in RequiredInit \ {"author_name"} |-> BaseDict[f]] },
        thru \in RecipientChoices("thru"), for \in RecipientChoices("for"),
        mt \in MemoTypeChoices }

\* the form of conftest.sample_form_data with the body given
BaseForm(memo_text) ==
    [k \in {"ORGANIZATION_NAME", "ORGANIZATION_STREET_ADDRESS", "ORGANIZATION_CITY_STATE_ZIP",
            "OFFICE_SYMBOL", "DATE", "AUTHOR", "RANK", "BRANCH", "TITLE", "SUBJECT",
            "MEMO_TEXT"} |->
        CASE k = "ORGANIZATION_NAME" -> <<"Unit">>
          [] k = "ORGANIZATION_STREET_ADDRESS" -> <<"Main", " ", "St">>
          [] k = "ORGANIZATION_CITY_STATE_ZIP" -> <<"City">>
          [] k = "OFFICE_SYMBOL" -> <<"ABC">>
          [] k = "DATE" -> <<"01", " ", "May", " ", "2022">>
          [] k = "AUTHOR" -> <<"Jane">>
          [] k = "RANK" -> <<"CPT">>
          [] k = "BRANCH" -> <<"EN">>
          [] k = "TITLE" -> <<"Top">>
          [] k = "SUBJECT" -> <<"Memo">>
          [] OTHER -> memo_text]

\* numbered list keys a form may hold
FormListChoices ==
    { EmptyDict,
      [k \in {"FOR_ORGANIZATION_NAME1", "FOR_ORGANIZATION_STREET_ADDRESS1",
              "FOR_ORGANIZATION_CITY_STATE_ZIP1"} |-> <<"N", "1">>],
      [k \in {"FOR_ORGANIZATION_NAME1", "FOR_ORGANIZATION_NAME2"} |-> <<"N", k>>] }

\* forms with a body of items, a body that starts with a paragraph, and no
\* MEMO_TEXT at all
FormInputs ==
    { [dict |-> BaseForm(JoinLines(body)) @@ ls, none |-> {}] :
        body \in { <<ItemA>>, <<ItemA, <<>>, ItemB>>, <<Paragraph, ItemA>> },
        ls \in FormListChoices }
    \cup { [dict |-> [k \in DOMAIN BaseForm(<<>>) \ {"MEMO_TEXT"} |-> BaseForm(<<>>)[k]],
            none |-> {}] }

InitDict ==
    /\ EscOff /\ BodyOff /\ DocOff /\ WrOff
    /\ \/ d_pc = "dict" /\ d_in \in DictInputs
       \/ d_pc = "form" /\ d_in \in FormInputs
    /\ d_out = Unset

\* MemoModel.from_dict(d), on the caller's dictionary or on m.to_dict(); the
\* dictionary passed is left with the memo_type that was deduced
FromDict ==
    /\ d_pc \in {"dict", "dumped"}
    /\ d_out' = from_dict_none(d_in)
    /\ d_in' = [dict |-> deduce_memo_type(d_in.dict), none |-> d_in.none \ {"memo_type"}]
    /\ d_pc' = IF d_pc = "dict" THEN "built" ELSE "rebuilt"
    /\ UNCHANGED not_dict

\* m.to_dict()
ToDict ==
    /\ d_pc = "built" /\ d_out.kind = "MemoModel"
    /\ d_in' = to_dict(d_out)
    /\ d_pc' = "dumped"
    /\ UNCHANGED <<d_out, not_dict>>

\* MemoModel.from_form(form)
FromForm ==
    /\ d_pc = "form"
    /\ d_out' = from_form(d_in.dict)
    /\ d_pc' = "formed"
    /\ UNCHANGED <<d_in, not_dict>>

NextDict == FromDict \/ ToDict \/ FromForm

SpecDict == InitDict /\ [][NextDict]_vars

----------------------------------------------------------------------------
(* Properties of the document runs                                         *)

\* the lines parse_lines works on, once blank lines and comments are dropped
Kept == FilterLines(file_lines)

PassesPreValidation == validate_input_text(JoinLines(Kept)) = NoError

NoSubjectLine == \A i \in 1..Len(Kept) : ~HasSubject(Kept[i])

\* the header: the lines up to and including the first that contains SUBJECT
HeaderEnd ==
    IF NoSubjectLine THEN 0
    ELSE CHOOSE i \in 1..Len(Kept) : HasSubject(Kept[i]) /\ \A j \in 1..(i - 1) : ~HasSubject(Kept[j])

IsKeyLine(line) == Find(line, "=") # -1
KeyOf(line) == Strip(SubSeq(line, 1, Find(line, "=")))
ValueOf(line) == Strip(SubSeq(line, Find(line, "=") + 2, Len(line)))
IsRecognised(key) == Len(key) = 1 /\ key[1] \in KnownKeys

UnknownKeyAt(i) == IsKeyLine(Kept[i]) /\ ~IsRecognised(KeyOf(Kept[i]))
TooLongAt(i) ==
    IsKeyLine(Kept[i]) /\ IsRecognised(KeyOf(Kept[i])) /\ CharLen(ValueOf(Kept[i])) > 1000

HasUnknownKey == \E i \in 1..HeaderEnd : UnknownKeyAt(i)
FirstUnknownKey ==
    CHOOSE i \in 1..HeaderEnd : UnknownKeyAt(i) /\ \A j \in 1..(i - 1) : ~UnknownKeyAt(j)

\* the messages
MissingSubjectMessage ==
    <<"ERROR: missing the keyword SUBJECT. ",
      "Please add SUBJECT=(your subject) above the start of your memo">>
UnknownKeyMessage(line) ==
    <<"ERROR: No such keyword as '">> \o KeyOf(line)
      \o <<"', please remove or fix line: ">> \o line
TooLongMessage(line) ==
    <<"ERROR: Field '">> \o KeyOf(line) \o <<"' is too long (maximum 1000 characters)">>
OfficeSymbolMessage ==
    <<"FIELD VALIDATION ERROR: ", "Required field missing: ", "Office Symbol">>

IsDocument(r) == r.kind = "MemoModel"
IsError(r) == r.kind = "str"
Mentions(r, word) == \E n \in 1..Len(r.s) : r.s[n] = word

\* C7: for input that passes the pre-validation and has no line containing
\* SUBJECT, parse_lines returns the missing-SUBJECT message, whatever unknown
\* keys or missing fields the input also has.
C7_MissingSubject ==
    (p_pc # "input" /\ PassesPreValidation /\ NoSubjectLine) =>
        result = ErrorStr(MissingSubjectMessage)

C7_Witness ==
    /\ p_pc = "parsed" /\ PassesPreValidation /\ NoSubjectLine
    /\ Kept[1] = UnknownKeyLine
    /\ \A i \in 1..Len(Kept) : ~(IsKeyLine(Kept[i]) /\ KeyOf(Kept[i]) = <<"AUTHOR">>)
    /\ result = ErrorStr(MissingSubjectMessage)

\* the first atoms of the messages parse_lines can return
ErrorKinds ==
    { "INPUT VALIDATION ERROR: ", "ERROR: missing the keyword SUBJECT. ",
      "ERROR: No such keyword as '", "ERROR: Field '",
      "ERROR: Failed to parse memo body: ", "FIELD VALIDATION ERROR: ",
      "Missing the following keys: " }

\* an error string says which kind of error it is and what it is about
Descriptive(r) == IsError(r) /\ Len(r.s) > 1 /\ r.s[1] \in ErrorKinds

\* no field without a default is None, and the derived fields are set
FullyPopulated(r) ==
    /\ IsDocument(r)
    /\ r.none \subseteq NoneDefault
    /\ r.memo_type \in { <<"MEMORANDUM FOR RECORD">>, <<"MEMORANDUM FOR">>, <<"MEMORANDUM THRU">> }
    /\ r.todays_date # <<>>
    /\ \A k \in 1..Len(required_fields) : r[required_fields[k]] # <<>>

\* C8: whatever the input, parse_lines and from_text return a fully populated
\* MemoModel or a descriptive error string: no exception escapes and no
\* Document lacks a field that has no default.
C8_DocumentOrError ==
    /\ p_pc # "input" => (FullyPopulated(result) \/ Descriptive(result))
    /\ p_pc = "reparsed" => (FullyPopulated(result2) \/ Descriptive(result2))

C8_Witness ==
    /\ p_pc = "parsed"
    /\ Len(Kept) > HeaderEnd /\ HeaderEnd > 0 /\ Kept[HeaderEnd + 1] = Paragraph
    /\ result = ErrorStr(<<"ERROR: Failed to parse memo body: ", "IndexError">>)

\* C6 as stated: if a KEY = value line of the header has a key that is not
\* recognised, the result is an error string that names that key and line.
C6_UnknownKeyAlwaysNamed ==
    (p_pc # "input" /\ PassesPreValidation /\ ~NoSubjectLine /\ HasUnknownKey) =>
        \E i \in 1..HeaderEnd :
            UnknownKeyAt(i) /\ result = ErrorStr(UnknownKeyMessage(Kept[i]))

\* C6, amended: the result is the error that names the first unrecognised key
\* and its line, before any missing-field or body error, unless a header line
\* above it has a recognised key and a value of more than 1000 characters:
\* then it is the too-long error of the first such line.  No Document either way.
C6_UnknownKeyUnlessTooLong ==
    (p_pc # "input" /\ PassesPreValidation /\ ~NoSubjectLine /\ HasUnknownKey) =>
        IF \E j \in 1..(FirstUnknownKey - 1) : TooLongAt(j)
        THEN LET j == CHOOSE j \in 1..(FirstUnknownKey - 1) :
                          TooLongAt(j) /\ \A k \in 1..(j - 1) : ~TooLongAt(k)
             IN  result = ErrorStr(TooLongMessage(Kept[j]))
        ELSE result = ErrorStr(UnknownKeyMessage(Kept[FirstUnknownKey]))

\* the unknown key is reported although AUTHOR is missing and the body would
\* not parse
C6_Witness ==
    /\ p_pc = "parsed" /\ PassesPreValidation /\ ~NoSubjectLine
    /\ Kept[1] = UnknownKeyLine
    /\ \A i \in 1..Len(Kept) : ~(IsKeyLine(Kept[i]) /\ KeyOf(Kept[i]) = <<"AUTHOR">>)
    /\ Kept[Len(Kept)] = Paragraph /\ HeaderEnd = Len(Kept) - 1
    /\ result = ErrorStr(UnknownKeyMessage(UnknownKeyLine))

\* [Item, Group([Item, Item]), Item]
IsItemGroupItem(text) ==
    /\ Len(text) = 3
    /\ text[1].kind = "str" /\ text[2].kind = "list" /\ text[3].kind = "str"
    /\ Len(text[2].kids) = 2
    /\ text[2].kids[1].kind = "str" /\ text[2].kids[2].kind = "str"

ExampleTree ==
    << Str(<<"Top", " ", "level", " ", "item">>),
       List(<< Str(<<"Nested", " ", "item", " ", "one">>),
               Str(<<"Nested", " ", "item", " ", "two">>) >>),
       Str(<<"Second", " ", "top", " ", "level", " ", "item">>) >>

\* C4 as stated: the example, whose header has ORGANIZATION_NAME, AUTHOR, RANK,
\* BRANCH and SUBJECT only, parses to a Document with the body
\* [Item, Group([Item, Item]), Item].
C4_ExampleParses ==
    (p_pc # "input" /\ file_lines = SpecExample) =>
        IsDocument(result) /\ IsItemGroupItem(result.text)

\* C4, amended: the example with OFFICE_SYMBOL, ORGANIZATION_STREET_ADDRESS and
\* ORGANIZATION_CITY_STATE_ZIP added to its header parses to a Document whose
\* body is [Item, Group([Item, Item]), Item] with the example's texts; the
\* example as given returns the field-validation error for Office Symbol.
C4_CompletedExampleParses ==
    /\ (p_pc # "input" /\ file_lines = CompletedExample) =>
          IsDocument(result) /\ IsItemGroupItem(result.text) /\ result.text = ExampleTree
    /\ (p_pc # "input" /\ file_lines = SpecExample) =>
          result = ErrorStr(OfficeSymbolMessage)

C4_Witness ==
    /\ p_pc = "parsed" /\ file_lines = CompletedExample
    /\ IsDocument(result) /\ result.text = ExampleTree

\* the external keys of the fields that are not optional (TITLE is optional,
\* MEMO_TYPE is derived)
NonOptionalKeys ==
    { k \in KnownKeys : FieldOfKey(k) \notin optional_keys \cup {"author_title", "memo_type"} }

HeaderKeys ==
    { KeyOf(Kept[i])[1] : i \in { j \in 1..HeaderEnd : IsKeyLine(Kept[j]) /\ IsRecognised(KeyOf(Kept[j])) } }

MissingNonOptional == NonOptionalKeys \ HeaderKeys

\* the header and the body are otherwise in order
OnlyFieldsCanBeMissing ==
    /\ PassesPreValidation /\ ~NoSubjectLine /\ ~HasUnknownKey
    /\ \A i \in 1..HeaderEnd : ~TooLongAt(i)
    /\ parse_memo_body(SubSeq(Kept, HeaderEnd + 1, Len(Kept))).exc = "none"

\* C5: when SUBJECT is present and non-optional fields were never set, the
\* result is an error that names exactly the missing non-optional fields by
\* their external keys.
C5_MissingFieldsNamed ==
    (p_pc # "input" /\ OnlyFieldsCanBeMissing /\ MissingNonOptional # {}) =>
        /\ IsError(result)
        /\ \A k \in KnownKeys : Mentions(result, k) <=> k \in MissingNonOptional

\* C1: from_text(d.to_amd()) is a Document with the header fields and the
\* flattened body text of d.
C1_AmdRoundTrip ==
    /\ p_pc = "written" => amd.exc = "none"
    /\ p_pc = "reparsed" =>
          /\ IsDocument(result2)
          /\ result2.none = result.none
          /\ \A f \in Fields \ {"text"} : result2[f] = result[f]
          /\ flatten(result2.text) = flatten(result.text)

\* the first body line is neither a dash line nor a table row
LeadingParagraph ==
    /\ PassesPreValidation /\ HeaderEnd > 0 /\ Len(Kept) > HeaderEnd
    /\ IsParagraph(Kept[HeaderEnd + 1])

\* C11: a non-dash, non-table body line before any Item is a no-op: the result
\* is what parse_lines returns for the file without that line.
C11_LeadingParagraphIsNoOp ==
    (p_pc # "input" /\ LeadingParagraph) =>
        result = parse_lines(DropLine(Kept, HeaderEnd + 1))

\* C24: a header value that contains the word SUBJECT does not end the
\* header: the line is stored as its field, the lines down to SUBJECT = ...
\* are header lines too, and the body is what follows the SUBJECT line.
C24_HeaderEndsAtSubjectKey ==
    \A i \in SubjectValueLines :
        (p_pc # "input" /\ file_lines = SubjectValueInput(i)) =>
            /\ IsDocument(result)
            /\ result[FieldOfKey(KeyOf(file_lines[i])[1])] = <<"SUBJECT", " ", "Top">>
            /\ result.subject = <<"Memo">>
            /\ result.text = <<Str(<<"A">>)>>

\* C29: the body of the Document that from_text returns for the text
\* to_amd wrote has the nesting structure of the body that was written.
C29_BodyShapeSurvives ==
    (p_pc = "reparsed" /\ IsDocument(result2)) =>
        ShapeOf(result2.text) = ShapeOf(result.text)

\* the field of the Document a header value is stored in: a list of values
\* for the list fields
Stored(r, field, value) ==
    /\ field \notin r.none
    /\ r[field] = IF field \in list_keys THEN <<value>> ELSE value

\* C15: a header line above SUBJECT whose key is one that to_amd writes is
\* recognised by parse_lines and its value is stored in the field to_amd
\* writes that key from; SUBJECT itself, the last key written, is stored too.
C15_WrittenKeysAreParsed ==
    \A k \in 1..(Len(amd_keys) - 1) :
        (p_pc # "input" /\ file_lines = AmdKeyInput(k)) =>
          /\ IsDocument(result)
          /\ Stored(result, amd_keys[k][2], <<"ABC">>)
          /\ Stored(result, amd_keys[Len(amd_keys)][2], <<"Memo">>)

\* the three lists of a recipient block are all absent, or all present with
\* one length
CompleteBlock(data, pre) ==
    LET fs == {pre \o "_unit_name", pre \o "_unit_street_address", pre \o "_unit_city_state_zip"}
    IN  \/ fs \subseteq data.none
        \/ /\ fs \cap data.none = {}
           /\ \A f \in fs : Len(data[f]) = Len(data[pre \o "_unit_name"])

\* C16: in every Document parse returns, the three FOR lists have one length
\* and the three THRU lists have one length.
C16_RecipientTriples ==
    /\ (p_pc # "input" /\ IsDocument(result)) =>
          CompleteBlock(result, "for") /\ CompleteBlock(result, "thru")
    /\ (p_pc = "reparsed" /\ IsDocument(result2)) =>
          CompleteBlock(result2, "for") /\ CompleteBlock(result2, "thru")

----------------------------------------------------------------------------
(* Properties of the writer runs                                           *)

\* a write() call has returned
Written == w_pc >= 1 /\ w_exc = "none"

\* the body nodes that are the empty string: what process_table returns for a
\* block it cannot read
FailedTables(text) == { i \in 1..Len(flatten(text)) : flatten(text)[i] = <<>> }

LinesEqualTo(ls, line) == { i \in 1..Len(ls) : ls[i] = line }

\* C12: a table block that process_table cannot read does not abort the
\* parse; the node it leaves is rendered as an (empty) table block, one
\* centered block per failed table, and never as a list entry.
C12_FailedTableRendersAsTable ==
    (Written /\ w_pc = 1 /\ FailedTables(w_data.text) # {}) =>
        /\ LinesEqualTo(w_lines, <<BS, "item", " ">>) = {}
        /\ Cardinality(LinesEqualTo(w_lines, Directive("begin", <<"center">>)))
              >= Cardinality(FailedTables(w_data.text))

\* C13: every write() of a Document produces the text that the first write()
\* of a new writer produces for it.
C13_RenderIsStateless ==
    Written => w_out = write(w_data, <<>>).out

RecipientCount(data, pre) ==
    IF (pre \o "_unit_name") \in data.none THEN 0 ELSE Len(data[pre \o "_unit_name"])

RecipientText(data, pre, i) ==
    data[pre \o "_unit_name"][i] \o <<",", " ">> \o data[pre \o "_unit_street_address"][i]
      \o <<",", " ">> \o data[pre \o "_unit_city_state_zip"][i]

\* the salutation lines the specification asks for
ExpectedThru(data) ==
    IF RecipientCount(data, "thru") = 1
    THEN << <<BS, "addmemoline", "{", "MEMORANDUM THRU", " ">>
              \o RecipientText(data, "thru", 1) \o <<" ", "}">> >>
    ELSE [i \in 1..RecipientCount(data, "thru") |->
             <<BS, "multimemothru", "{">> \o RecipientText(data, "thru", i) \o <<"}">>]

ExpectedFor(data) ==
    IF RecipientCount(data, "for") = 0
    THEN << <<BS, "memoline", "{", "{", "MEMORANDUM FOR RECORD", "}", "}">> >>
    ELSE IF RecipientCount(data, "for") = 1
    THEN << <<BS, "memoline", "{",
              IF RecipientCount(data, "thru") = 0 THEN "MEMORANDUM FOR" ELSE "FOR", " ">>
              \o RecipientText(data, "for", 1) \o <<"}">> >>
    ELSE [i \in 1..RecipientCount(data, "for") |->
             <<BS, "multimemofor", "{">> \o RecipientText(data, "for", i) \o <<"}">>]

IsSalutation(line) ==
    /\ Len(line) >= 2 /\ line[1] = BS
    /\ line[2] \in {"memoline", "multimemofor", "addmemoline", "multimemothru"}

\* a Document whose recipients are complete triples; a THRU memo names FOR
\* recipients as well
WellFormedRecipients(data) ==
    /\ CompleteBlock(data, "for") /\ CompleteBlock(data, "thru")
    /\ RecipientCount(data, "thru") > 0 => RecipientCount(data, "for") > 0

\* C17: MEMORANDUM FOR RECORD gives one fixed salutation line, one FOR
\* recipient one combined line, n > 1 FOR recipients n directives in order,
\* and a THRU memo the THRU block, by the same rule, right before the FOR
\* block; the output has no other salutation line.
C17_RecipientRendering ==
    (Written /\ w_pc = 1 /\ WellFormedRecipients(w_data)) =>
        LET expected == ExpectedThru(w_data) \o ExpectedFor(w_data)
            at == CHOOSE i \in 1..Len(w_lines) :
                      w_lines[i] = <<BS, "subject", "{">> \o w_data.subject \o <<"}">>
        IN  /\ SelectSeq(w_lines, IsSalutation) = expected
            /\ SubSeq(w_lines, at + 1, at + Len(expected)) = expected

C17_Witness ==
    /\ Written /\ w_pc = 1 /\ WellFormedRecipients(w_data)
    /\ RecipientCount(w_data, "thru") = 1 /\ RecipientCount(w_data, "for") = 2
    /\ SelectSeq(w_lines, IsSalutation) =
          << <<BS, "addmemoline", "{", "MEMORANDUM THRU", " ",
               "N", "1", ",", " ", "S", "1", ",", " ", "Z", "1", " ", "}">>,
             <<BS, "multimemofor", "{", "N", "1", ",", " ", "S", "1", ",", " ", "Z", "1", "}">>,
             <<BS, "multimemofor", "{", "N", "2", ",", " ", "S", "2", ",", " ", "Z", "2", "}">> >>

\* the lines of the body: from \begin{document} on
BodyLinesOf(ls) ==
    SubSeq(ls, CHOOSE i \in 1..Len(ls) : ls[i] = Directive("begin", <<"document">>), Len(ls))

BeginEnumerate == Directive("begin", <<"enumerate">>)
EndEnumerate == Directive("end", <<"enumerate">>)

CountLines(ls, line) == Cardinality(LinesEqualTo(ls, line))

\* the number of lists in a body tree
RECURSIVE GroupCount(_)
GroupCount(lol) ==
    IF lol = <<>> THEN 0
    ELSE (IF Head(lol).kind = "list" THEN 1 + GroupCount(Head(lol).kids) ELSE 0)
           + GroupCount(Tail(lol))

\* a node made by the table sub-parser holds tabular markup; any other str
\* of the tree is an Item
IsTableText(t) == IsPrefix(TabularBegin, t)
IsItemText(t) == ~IsTableText(t)
IsItemEntry(line) == IsPrefix(<<BS, "item", " ">>, line)

\* C26: the body is enclosed in one outer enumerate inside the document
\* environment, every Group adds one begin/end pair, no prefix of the output
\* closes more lists than it has opened, and the \item lines are the Items
\* of the tree, one line each, in tree order.
C26_BodyWellFormed ==
    (Written /\ w_pc = 1) =>
        LET b == BodyLinesOf(w_lines)
        IN  /\ SubSeq(b, 1, 2) = <<Directive("begin", <<"document">>), BeginEnumerate>>
            /\ SubSeq(b, Len(b) - 1, Len(b)) = <<EndEnumerate, Directive("end", <<"document">>)>>
            /\ CountLines(b, BeginEnumerate) = 1 + GroupCount(w_data.text)
            /\ CountLines(b, EndEnumerate) = 1 + GroupCount(w_data.text)
            /\ \A n \in 2..(Len(b) - 2) :
                  CountLines(SubSeq(b, 1, n), EndEnumerate)
                     < CountLines(SubSeq(b, 1, n), BeginEnumerate)
            /\ SelectSeq(b, IsItemEntry) =
                  [i \in 1..Len(SelectSeq(flatten(w_data.text), IsItemText)) |->
                      <<BS, "item", " ">> \o SelectSeq(flatten(w_data.text), IsItemText)[i]]

\* C28: rendering a Document whose recipient blocks are complete triples
\* does not raise, whatever its memo type.
C28_EveryDocumentRenders ==
    (w_pc >= 1 /\ CompleteBlock(w_data, "for") /\ CompleteBlock(w_data, "thru")) =>
        w_exc = "none"

\* C30: the output has one centered block per Table node of the tree and no
\* other, and every other node is one \item entry with its text as it is.
C30_TableBlockIffTable ==
    (Written /\ w_pc = 1) =>
        /\ CountLines(w_lines, Directive("begin", <<"center">>))
              = Len(SelectSeq(flatten(w_data.text), IsTableText))
        /\ \A i \in 1..Len(flatten(w_data.text)) :
              IsItemText(flatten(w_data.text)[i]) =>
                  CountLines(w_lines, <<BS, "item", " ">> \o flatten(w_data.text)[i]) >= 1

----------------------------------------------------------------------------
(* Properties of the clock runs                                            *)

NoDateLine ==
    \A i \in 1..Len(file_lines) :
        ~(IsKeyLine(file_lines[i]) /\ KeyOf(file_lines[i]) = <<"DATE">>)

\* C14: a Document parsed from input without a DATE header carries the date
\* of the day its parse runs, and no later step changes the Document.
C14_DateOfParse ==
    [][ /\ (p_pc = "input" /\ p_pc' = "parsed" /\ NoDateLine /\ IsDocument(result')) =>
              result'.todays_date = DateOf(today)
        /\ (p_pc # "input" /\ IsDocument(result)) => result' = result
      ]_vars

----------------------------------------------------------------------------
(* Properties of the dictionary runs                                       *)

\* the memo type the recipient keys of a dictionary stand for
TypeOfRecipients(d) ==
    IF "thru_unit_name" \in DOMAIN d THEN <<"MEMORANDUM THRU">>
    ELSE IF "for_unit_name" \in DOMAIN d THEN <<"MEMORANDUM FOR">>
    ELSE <<"MEMORANDUM FOR RECORD">>

\* C18: the memo_type of a Document from_dict returns is MEMORANDUM THRU when
\* the dictionary has the THRU unit name key (with or without the FOR one),
\* else MEMORANDUM FOR when it has the FOR unit name key, else MEMORANDUM FOR
\* RECORD, whatever memo_type the caller put in the dictionary.
C18_MemoTypeFromRecipientKeys ==
    (d_pc \in {"built", "rebuilt"} /\ IsDocument(d_out)) =>
        d_out.memo_type = TypeOfRecipients(d_in.dict)

C18_Witness ==
    /\ d_pc = "built" /\ IsDocument(d_out)
    /\ {"thru_unit_name", "for_unit_name"} \subseteq DOMAIN d_in.dict
    /\ d_in.none = {}
    /\ d_out.memo_type = <<"MEMORANDUM THRU">>
    /\ Len(d_out.for_unit_name) = 1

\* C19: from_dict(m.to_dict()) is a Document equal to m in every field.
C19_DictRoundTrip ==
    [][(d_pc = "dumped" /\ d_pc' = "rebuilt") => d_out' = d_out]_vars

FormRequiredKeys ==
    { "ORGANIZATION_NAME", "ORGANIZATION_STREET_ADDRESS", "ORGANIZATION_CITY_STATE_ZIP",
      "OFFICE_SYMBOL", "AUTHOR", "RANK", "BRANCH", "SUBJECT", "MEMO_TEXT" }

\* C20: for a form with every required header key and MEMO_TEXT, from_form
\* returns a Document whose header fields are the form's values, whose body
\* is the parse of MEMO_TEXT and whose list fields hold the numbered values.
C20_FormGivesDocument ==
    (d_pc = "formed" /\ FormRequiredKeys \subseteq DOMAIN d_in.dict) =>
        /\ IsDocument(d_out)
        /\ \A k \in (DOMAIN d_in.dict \cap KnownKeys) \ {"MEMO_TYPE"} :
              d_out[FieldOfKey(k)] = d_in.dict[k]
        /\ d_out.text =
              parse_memo_body(FilterLines(SplitLines(d_in.dict["MEMO_TEXT"]))).value
        /\ \A i \in 1..Len(amd_recipient_keys) :
              (amd_recipient_keys[i][1] \o "1") \in DOMAIN d_in.dict =>
                  \E n \in 1..Len(d_out[amd_recipient_keys[i][2]]) :
                      d_out[amd_recipient_keys[i][2]][n] = d_in.dict[amd_recipient_keys[i][1] \o "1"]

----------------------------------------------------------------------------
(* Properties of the escaper runs                                          *)

\* the sequences the escaper produces
MarkupSequences ==
    { special_chars[k][2] : k \in 1..Len(special_chars) }
      \cup { <<BS, normal_chars[k]>> : k \in 1..Len(normal_chars) }
      \cup { <<BS, w, "{">> : w \in {"underline", "textbf", "textit"} }

NoMarkup(s) == \A m \in MarkupSequences : ~Contains(s, m)

\* C2: for every string s without typesetting markup of its own,
\* remove_latex_escape_chars(add_latex_escape_chars(s)) = s.
C2_EscapeRoundTrip ==
    (e_pc = "unescaped" /\ NoMarkup(e_in)) => e_unesc = e_in

\* what one character of the input should become
ImageOf(c) ==
    IF \E k \in 1..Len(special_chars) : special_chars[k][1] = c
    THEN special_chars[CHOOSE k \in 1..Len(special_chars) : special_chars[k][1] = c][2]
    ELSE IF \E k \in 1..Len(normal_chars) : normal_chars[k] = c
    THEN <<BS, c>>
    ELSE <<c>>

\* C23: for input without an asterisk, the output of add_latex_escape_chars
\* is the concatenation of the images of the input's characters, so no
\* backslash written by the escaper is escaped again.
C23_CharacterwiseImage ==
    (e_pc \in {"escaped", "unescaped"} /\ ~Contains(e_in, <<"*">>)) =>
        e_esc = Concat([i \in 1..Len(e_in) |-> ImageOf(e_in[i])])

=============================================================================
